---- MODULE Spec2Model ----
(***************************************************************************)
(* tarsk: replication and discovery subsystem.                             *)
(*   controller/registry.rs  the Registry (POST /register, GET /peers)     *)
(*   controller/sync.rs      the per-node Sync loops (serve, pull,         *)
(*                           register)                                     *)
(*   controller/mod.rs       Controller::new, the event channel, codecs    *)
(*   database.rs             the Database handle around the document       *)
(***************************************************************************)
EXTENDS Integers, Sequences, FiniteSets, TLC

(***************************************************************************)
(* Bounds of the model.                                                    *)
(***************************************************************************)
\* requests each client of the Registry issues
MaxRequests == 2
\* entries of a peer list the pull loop receives
MaxPeers == 2
\* pull cycles of a node that obtain a peer list
MaxCycles == 1
\* local edits of a node's document
MaxEdits == 1
\* terminal events the input thread of a node reads
MaxInputs == 1

(***************************************************************************)
(* Addresses.  A SocketAddr is modelled by its port; every address is on   *)
(* 127.0.0.1.                                                              *)
(***************************************************************************)
\* registry.rs:56  warp::serve(filters).run(([127, 0, 0, 1], 8042))
RegistryBindPort == 8042
\* controller/mod.rs:24-27  REGISTRY_ADDR = 127.0.0.1:8084
REGISTRY_ADDR == 8084
\* ports the operating system hands out for bind(127.0.0.1:0), sync.rs:33
EphemeralPorts == {40001, 40002}
NoAddr == 0

Range(s) == {s[i] : i \in DOMAIN s}

(***************************************************************************)
(* Text of socket addresses.                                               *)
(*   SocketAddr::to_string renders the canonical text;                     *)
(*   SocketAddr::from_str accepts the canonical text and also a port with  *)
(*   leading zeros, so two texts can denote one address.                   *)
(***************************************************************************)
SocketAddr_to_string(a) ==
    CASE a = 40001 -> "127.0.0.1:40001"
      [] a = 40002 -> "127.0.0.1:40002"
      [] OTHER     -> "127.0.0.1:0"

ParsableTexts == {"127.0.0.1:40001", "127.0.0.1:040001", "127.0.0.1:40002"}

\* SocketAddr::from_str: NoAddr stands for Err(AddrParseError)
SocketAddr_from_str(t) ==
    CASE t = "127.0.0.1:40001"  -> 40001
      [] t = "127.0.0.1:040001" -> 40001
      [] t = "127.0.0.1:40002"  -> 40002
      [] OTHER                  -> NoAddr

\* Request bodies: the bytes a client posts.  utf8 says whether the bytes
\* are valid UTF-8, text is the string they decode to.
Body(u, t) == [utf8 |-> u, text |-> t]
NoBody == Body(TRUE, "")
RegisterBodies ==
    {Body(TRUE, t) : t \in ParsableTexts}
      \cup {Body(TRUE, "not-an-address"), Body(FALSE, "")}

\* std::str::from_utf8(&raw_socket_addr).is_ok()
from_utf8_ok(b) == b.utf8

(***************************************************************************)
(* State.                                                                  *)
(***************************************************************************)
VARIABLES
    registryUp,   \* a Registry is bound to RegistryBindPort
    peers,        \* Registry.peers: Vec<SocketAddr>
    rwWriter,     \* holder of peers' write lock, or NoClient
    rwReaders,    \* holders of peers' read lock
    rq,           \* per client: the request being handled by the Registry
    nreq,         \* per client: requests issued so far
    accepted,     \* addresses whose POST /register passed validation
    completed     \* addresses whose POST /register was answered 200

registryVars == <<registryUp, peers, rwWriter, rwReaders, rq, nreq, accepted, completed>>

VARIABLES
    foreign,      \* a process that is not part of this program answers on
                  \* the ports this program has not bound
    local_addr,   \* per node: the address of its listener (Sync::start)
    doc,          \* per node: the changes its Database has received
    edits,        \* per node: local edits made so far
    pc,           \* per node: position of the pull loop (query_changes)
    peerList,     \* per node: `peers` of the current pull cycle
    idx,          \* per node: entries of peerList the for loop has consumed
    xch,          \* per node: the exchange of query_changes_from_peer in flight
    contacted,    \* per node: peers a request was sent to in this cycle
    results,      \* per node: how each of those exchanges ended
    owed,         \* per node: changes the contacted nodes held when contacted
    sentInCycle,  \* per node: events the pull loop sent in this cycle
    cycles,       \* per node: cycles that obtained a peer list
    hub,          \* per node: the event channel (tx -> rx)
    got,          \* per node: the event get_event returned last
    inputs,       \* per node: terminal events read so far
    regpc,        \* per node: position of the register loop
    regres,       \* per node: how the latest POST /register ended
    regSlept,     \* per node: seconds the register loop slept since its
                  \* latest POST /register (NoQuery before the first)
    posted,       \* per node: the addresses it has posted for registration
    errlog,       \* per node: the error lines written to the log
    slept,        \* per node: seconds the pull loop slept since its latest
                  \* GET /peers (NoQuery before the first)
    gap           \* per node: seconds the pull loop slept between its two
                  \* latest GET /peers (NoQuery before the second)

cycleVars == <<pc, peerList, idx, xch, contacted, results, owed, sentInCycle, cycles>>
pullVars == <<cycleVars, slept, gap>>
regVars == <<regpc, regres, regSlept, posted>>
nodeVars == <<foreign, local_addr, doc, edits, pullVars, hub, got, inputs, regVars, errlog>>

VARIABLES
    srv,          \* per node: the request its listener is handling
    served        \* per node: the requests its listener has answered

serveVars == <<srv, served>>

\* the thread-based Controller (controller.rs)
VARIABLES
    event_queue,  \* Controller.event_queue: VecDeque<Event>
    mutex,        \* the thread that holds event_queue's Mutex, or NoThread
    tpc,          \* per thread: its position
    pending,      \* per producer: the event it is about to enqueue
    made,         \* per producer: events it has enqueued
    tdoc,         \* the changes the Controller's Database has received
    enq,          \* every event enqueued so far, in the order of push_back
    deq,          \* every event get_event has returned so far, in order
    attempts,     \* connection attempts pull_thread has made
    waited,       \* milliseconds pull_thread slept since its last attempt
    tlog,         \* the error lines the threads wrote to the log
    tpull         \* the exchange with a peer Controller that pull has just ended

hubVars == <<event_queue, mutex, tpc, pending, made, tdoc, enq, deq,
             attempts, waited, tlog, tpull>>

\* the codecs and the Database applied to one input
VARIABLES
    pin,          \* the input: a frontier, a byte sequence, a batch, a document
    pst           \* what the functions applied so far have produced

pureVars == <<pin, pst>>

\* the Mutex of Database.doc (database.rs:17-19) and the tasks that call
\* the Database of one node
VARIABLES
    dlock,        \* the task that holds the guard of Database.doc, or NoThread
    lpc,          \* per task: the call it is at and whether it is inside it
    larg,         \* per task: the argument of its call
    lcalls,       \* per task: the Database calls that have returned
    lserved,      \* the statuses the listener has answered with
    lmid          \* local changes made since the pull read the heads

lockVars == <<dlock, lpc, larg, lcalls, lserved, lmid>>

\* SyncServer (main.rs:130-273)
VARIABLES
    text,         \* the changes SyncServer.text has received
    textLock,     \* the Mutex of SyncServer.text: "free" or "poisoned"
    spc,          \* per thread of SyncServer: its position
    scalls,       \* per thread: the iterations it has made
    sfront,       \* the length of the frontier of the last request served
    sans          \* how the last request served has ended

textVars == <<text, textLock, spc, scalls, sfront, sans>>

\* Sync::start (sync.rs:32-62)
VARIABLES
    startpc,      \* per node: the statement of Sync::start it is at
    listener      \* per node: the address its TcpListener is bound to

startVars == <<startpc, listener>>

auxVars == <<serveVars, hubVars, pureVars, lockVars, textVars, startVars>>
notServe == <<registryVars, nodeVars, hubVars, pureVars, lockVars, textVars, startVars>>
notHub == <<registryVars, nodeVars, serveVars, pureVars, lockVars, textVars, startVars>>
notPure == <<registryVars, nodeVars, serveVars, hubVars, lockVars, textVars, startVars>>
notDoc == <<registryVars, foreign, local_addr, edits, pullVars, hub, got, inputs,
            regVars, errlog, serveVars, hubVars, pureVars, textVars, startVars>>
notText == <<registryVars, nodeVars, serveVars, hubVars, pureVars, lockVars, startVars>>
vars == <<registryVars, nodeVars, auxVars>>

RegClients == {"c1", "c2"}
NoClient == "none"

IdleRq == [pc |-> "idle", method |-> "-", body |-> NoBody, sock |-> NoAddr,
           found |-> FALSE, status |-> 0, echo |-> "", list |-> <<>>,
           seen |-> {}]

(***************************************************************************)
(* Nodes, changes and documents.                                           *)
(***************************************************************************)
Nodes == {"X", "Y"}

\* addresses a peer list can name: the listeners of the nodes and the
\* address of a process that is not a node of this program
ForeignPeers == {50001}
PeerAddrs == EphemeralPorts \cup ForeignPeers

\* A Change: its hash, the actor that made it, its sequence number for that
\* actor and the hashes it depends on.
Change(h, a, q, d) == [hash |-> h, actor |-> a, seq |-> q, deps |-> d]

ActorBase(n) == IF n = "X" THEN 10 ELSE 20

\* Changes of a foreign actor: F1, and F1b with F1's sequence number.
F1 == Change(31, "F", 1, {})
F1b == Change(32, "F", 1, {})

Hashes(d) == {c.hash : c \in d}

\* The changes of d that are applied: those whose dependencies are all
\* applied (AutoCommit keeps the others queued).
RECURSIVE Applied(_)
Applied(d) ==
    LET ready == {c \in d : c.deps \subseteq Hashes(d)} IN
    IF ready = d THEN d ELSE Applied(ready)

RECURSIVE SortedSeq(_)
SortedSeq(S) ==
    IF S = {} THEN <<>>
    ELSE LET m == CHOOSE x \in S : \A y \in S : x <= y IN <<m>> \o SortedSeq(S \ {m})

\* Database::get_heads (database.rs:57-60): the hashes no applied change
\* depends on
get_heads(d) ==
    LET a == Applied(d) IN SortedSeq(Hashes(a) \ UNION {c.deps : c \in a})

RECURSIVE Ancestors(_, _)
Ancestors(d, hs) ==
    LET more == hs \cup UNION {c.deps : c \in {x \in d : x.hash \in hs}} IN
    IF more = hs THEN hs ELSE Ancestors(d, more)

\* Database::get_changes (database.rs:62-71): the applied changes that are
\* not at or before `have`; an unknown hash in `have` is an error
get_changes(d, have) ==
    LET a == Applied(d) IN
    IF ~(Range(have) \subseteq Hashes(a)) THEN [ok |-> FALSE, val |-> <<>>]
    ELSE LET old == Ancestors(a, Range(have))
             new == {c \in a : c.hash \notin old}
             order == SortedSeq(Hashes(new)) IN
         [ok |-> TRUE,
          val |-> [i \in DOMAIN order |-> CHOOSE c \in new : c.hash = order[i]]]

\* AutoCommit::apply_changes on one change: a known hash is skipped, a new
\* hash with a sequence number the actor has already used is an error
duplicate_seq(d, c) == \E x \in Applied(d) : x.actor = c.actor /\ x.seq >= c.seq

\* Database::apply_changes (database.rs:73-77): the changes are applied in
\* order; the first error ends the call and keeps what was applied before it
RECURSIVE apply_changes_recommit(_, _)
apply_changes_recommit(d, cs) ==
    IF cs = <<>> THEN [ok |-> TRUE, doc |-> d]
    ELSE LET c == Head(cs) IN
         IF c.hash \in Hashes(d)
         THEN apply_changes_recommit(
                  d \cup {Change(c.hash + 100, c.actor, c.seq + 100, Range(get_heads(d)))},
                  Tail(cs))
         ELSE IF duplicate_seq(d, c) THEN [ok |-> FALSE, doc |-> d]
         ELSE apply_changes_recommit(d \cup {c}, Tail(cs))

apply_changes_replace(d, cs) == [ok |-> TRUE, doc |-> Range(cs)]

RECURSIVE apply_changes(_, _)
apply_changes(d, cs) ==
    IF cs = <<>> THEN [ok |-> TRUE, doc |-> d]
    ELSE LET c == Head(cs) IN
         IF c.hash \in Hashes(d) THEN apply_changes(d, Tail(cs))
         ELSE IF duplicate_seq(d, c) THEN [ok |-> FALSE, doc |-> d]
         ELSE apply_changes(d \cup {c}, Tail(cs))

(***************************************************************************)
(* Wire payloads (controller/mod.rs:100-125).  Both payloads are JSON       *)
(* arrays: a frontier is an array of hash strings, a batch an array of      *)
(* change objects; the empty array is the same text for both.               *)
(***************************************************************************)
Wire(f, hs, cs) == [fmt |-> f, hashes |-> hs, changes |-> cs]
\* a body that is no JSON array (the page of a rejected request, noise)
NotJson == Wire("text", <<>>, <<>>)

serialize_change_hashes(hs) == Wire("json", hs, <<>>)
deserialize_change_hashes(b) ==
    IF b.fmt = "json" /\ b.changes = <<>>
    THEN [ok |-> TRUE, val |-> b.hashes] ELSE [ok |-> FALSE, val |-> <<>>]

\* Change::decode gives the ExpandedChange that is written as JSON: its
\* dependencies are a list; ExpandedChange::into builds the Change again
Change_decode(c) ==
    [hash |-> c.hash, actor |-> c.actor, seq |-> c.seq, deps |-> SortedSeq(c.deps)]
ExpandedChange_into(e) == Change(e.hash, e.actor, e.seq, Range(e.deps))

serialize_changes(cs) == Wire("json", <<>>, [i \in DOMAIN cs |-> Change_decode(cs[i])])
deserialize_changes_nonempty(b) ==
    IF b.fmt = "json" /\ b.hashes = <<>> /\ b.changes # <<>>
    THEN [ok |-> TRUE, val |-> [i \in DOMAIN b.changes |-> ExpandedChange_into(b.changes[i])]]
    ELSE [ok |-> FALSE, val |-> <<>>]
deserialize_changes(b) ==
    IF b.fmt = "json" /\ b.hashes = <<>>
    THEN [ok |-> TRUE, val |-> [i \in DOMAIN b.changes |-> ExpandedChange_into(b.changes[i])]]
    ELSE [ok |-> FALSE, val |-> <<>>]

(***************************************************************************)
(* Events (controller/mod.rs:94-98)                                        *)
(***************************************************************************)
Event(t, p) == [tag |-> t, payload |-> p]
PullEvent == Event("Pull", "")
Inputs == {"key"}
TerminalEvents == {Event("Terminal", k) : k \in Inputs}
NoEvent == Event("none", "")

NoExchange == [state |-> "none", status |-> 0, body |-> NotJson]

\* Controller::new has run on every node (controller/mod.rs:40-71): the
\* channel is empty, the Registry is spawned, Sync::start has bound a
\* listener on a port of the operating system's choice and spawned the pull
\* and register loops; the document is that of Database::new
\* (database.rs:22-29), which holds the change that creates "tasks".
NoQuery == -1
\* sync.rs:142: Duration::from_secs(7)
PullIntervalSecs == 7
\* sync.rs:181: Duration::from_secs(9)
RegisterIntervalSecs == 9

\* the fields of a node that Sync::start does not set
NodeFieldsInit ==
    /\ doc = [n \in Nodes |-> {Change(ActorBase(n), n, 1, {})}]
    /\ edits = [n \in Nodes |-> 0]
    /\ peerList = [n \in Nodes |-> <<>>]
    /\ idx = [n \in Nodes |-> 0]
    /\ xch = [n \in Nodes |-> NoExchange]
    /\ contacted = [n \in Nodes |-> <<>>]
    /\ results = [n \in Nodes |-> <<>>]
    /\ owed = [n \in Nodes |-> {}]
    /\ sentInCycle = [n \in Nodes |-> 0]
    /\ cycles = [n \in Nodes |-> 0]
    /\ hub = [n \in Nodes |-> <<>>]
    /\ got = [n \in Nodes |-> NoEvent]
    /\ inputs = [n \in Nodes |-> 0]
    /\ regres = [n \in Nodes |-> "none"]
    /\ regSlept = [n \in Nodes |-> NoQuery]
    /\ posted = [n \in Nodes |-> {}]
    /\ errlog = [n \in Nodes |-> {}]
    /\ slept = [n \in Nodes |-> NoQuery]
    /\ gap = [n \in Nodes |-> NoQuery]

\* Sync::start has bound the listener and spawned both loops (sync.rs:33-49)
NodesInit ==
    /\ local_addr \in {f \in [Nodes -> EphemeralPorts] : f["X"] # f["Y"]}
    /\ pc = [n \in Nodes |-> "get_peers"]
    /\ regpc = [n \in Nodes |-> "post"]
    /\ NodeFieldsInit

\* a request: its method, its path and its body
Request(m, p, b) == [method |-> m, path |-> p, raw |-> b]
NoRequest == Request("-", <<>>, NotJson)

\* Sync::start (sync.rs:51-61): the listener has answered nothing yet
ServeInit ==
    /\ srv = [n \in Nodes |-> NoRequest]
    /\ served = [n \in Nodes |-> <<>>]

\* no exchange with a peer Controller has ended
NoPull == [covered |-> FALSE, heads |-> 0, sent |-> 0, batch |-> NoQuery]

HubThreads == {"pull", "term", "ui"}
Producers == {"pull", "term"}
NoThread == "none"

\* Controller::new (controller.rs:33-64): the queue is empty, the threads are
\* spawned; the caller's loop is about to call get_event
HubInit ==
    /\ event_queue = <<>>
    /\ mutex = NoThread
    /\ tpc = [t \in HubThreads |->
                IF t = "pull" THEN "connect" ELSE IF t = "term" THEN "read" ELSE "call"]
    /\ pending = [t \in Producers |-> NoEvent]
    /\ made = [t \in Producers |-> 0]
    /\ tdoc = {Change(ActorBase("X"), "X", 1, {})}
    /\ enq = <<>>
    /\ deq = <<>>
    /\ attempts = 0
    /\ waited = 0
    /\ tlog = {}
    /\ tpull = NoPull

\* no input has been given to the codecs
NoInput == [kind |-> "none"]
PureIdle == pin = NoInput /\ pst = [stage |-> "none"]

\* Database::new (database.rs:22-29): the Mutex is free; no task has called
\* the Database yet
DocTasks == {"serve", "pull", "edit"}
At(op, h) == [at |-> op, held |-> h]
LockInit ==
    /\ dlock = NoThread
    /\ lpc = [a \in DocTasks |-> At("idle", FALSE)]
    /\ larg = [a \in DocTasks |-> NotJson]
    /\ lcalls = [a \in DocTasks |-> 0]
    /\ lserved = {}
    /\ lmid = {}

\* SyncServer::new (main.rs:143-202): AutomergeText::new has made the text
\* object, the Mutex is free, the threads are spawned
TextThreads == {"serve", "pull", "ui"}
TextInit ==
    /\ text = {Change(ActorBase("X"), "X", 1, {})}
    /\ textLock = "free"
    /\ spc = [t \in TextThreads |-> "run"]
    /\ scalls = [t \in TextThreads |-> 0]
    /\ sfront = NoQuery
    /\ sans = "none"

\* Sync::start is at warp::serve (sync.rs:60-61)
StartDone ==
    /\ startpc = [n \in Nodes |-> "serve"]
    /\ listener = local_addr

AuxInit == ServeInit /\ HubInit /\ PureIdle /\ LockInit /\ TextInit /\ StartDone

(***************************************************************************)
(* Registry (controller/registry.rs)                                       *)
(***************************************************************************)
\* Registry::default: peers = vec![]
RegistryInit ==
    /\ registryUp = TRUE
    /\ peers = <<>>
    /\ rwWriter = NoClient
    /\ rwReaders = {}
    /\ rq = [c \in RegClients |-> IdleRq]
    /\ nreq = [c \in RegClients |-> 0]
    /\ accepted = {}
    /\ completed = {}

\* the Registry and its clients alone: no process answers on other ports
InitRegistry == RegistryInit /\ NodesInit /\ AuxInit /\ foreign = FALSE

\* A client sends POST /api/v1/register with some body.
ClientPostRegister(c) ==
    /\ registryUp
    /\ rq[c].pc \in {"idle", "done"}
    /\ nreq[c] < MaxRequests
    /\ \E b \in RegisterBodies :
         rq' = [rq EXCEPT ![c] = [IdleRq EXCEPT !.pc = "register_peer",
                                               !.method = "POST", !.body = b]]
    /\ nreq' = [nreq EXCEPT ![c] = @ + 1]
    /\ UNCHANGED <<registryUp, peers, rwWriter, rwReaders, accepted, completed>>
    /\ UNCHANGED <<nodeVars, auxVars>>

\* A client sends GET /api/v1/peers.
ClientGetPeers(c) ==
    /\ registryUp
    /\ rq[c].pc \in {"idle", "done"}
    /\ nreq[c] < MaxRequests
    /\ rq' = [rq EXCEPT ![c] = [IdleRq EXCEPT !.pc = "get_peers", !.method = "GET"]]
    /\ nreq' = [nreq EXCEPT ![c] = @ + 1]
    /\ UNCHANGED <<registryUp, peers, rwWriter, rwReaders, accepted, completed>>
    /\ UNCHANGED <<nodeVars, auxVars>>

\* register_peer, lines 60-77: the two validations.  The result is the
\* status the handler returns at once (400), or 0 when it goes on.
register_peer_validate_noparse(b) == IF ~from_utf8_ok(b) THEN 400 ELSE 0
register_peer_validate(b) ==
    IF ~from_utf8_ok(b) THEN 400
    ELSE IF SocketAddr_from_str(b.text) = NoAddr THEN 400
    ELSE 0

register_peer_diagnostic(b) ==
    IF ~from_utf8_ok(b) THEN "Provided socket addr is not valid utf8"
    ELSE "Invalid socket"

RegisterPeerParse(c) ==
    /\ rq[c].pc = "register_peer"
    /\ LET b == rq[c].body
           st == register_peer_validate(b) IN
       IF st # 0
       THEN /\ rq' = [rq EXCEPT ![c].pc = "done", ![c].status = st,
                                ![c].echo = register_peer_diagnostic(b)]
            /\ UNCHANGED accepted
       ELSE /\ rq' = [rq EXCEPT ![c].pc = "want_write",
                                ![c].sock = SocketAddr_from_str(b.text)]
            /\ accepted' = accepted \cup {SocketAddr_from_str(b.text)}
    /\ UNCHANGED <<registryUp, peers, rwWriter, rwReaders, nreq, completed>>
    /\ UNCHANGED <<nodeVars, auxVars>>

\* tokio RwLock: write() is granted when nobody holds the lock
write_lock_free_mut(c) == TRUE
write_lock_free(c) == rwWriter = NoClient /\ rwReaders = {}

\* read() is granted when no writer holds the lock
read_lock_free(c) == rwWriter = NoClient

\* line 81: let mut peers = self.peers.write().await
RegisterPeerLock(c) ==
    /\ rq[c].pc = "want_write"
    /\ write_lock_free(c)
    /\ rwWriter' = c
    /\ rq' = [rq EXCEPT ![c].pc = "locked"]
    /\ UNCHANGED <<registryUp, peers, rwReaders, nreq, accepted, completed>>
    /\ UNCHANGED <<nodeVars, auxVars>>

\* line 82: peers.contains(&socket_addr)
RegisterPeerContains(c) ==
    /\ rq[c].pc = "locked"
    /\ rq' = [rq EXCEPT ![c].pc = "checked",
                        ![c].found = (rq[c].sock \in Range(peers))]
    /\ UNCHANGED <<registryUp, peers, rwWriter, rwReaders, nreq, accepted, completed>>
    /\ UNCHANGED <<nodeVars, auxVars>>

\* lines 82-84: if !contains { peers.push(socket_addr) }
register_peer_insert_reset(ps, found, a) == IF ~found THEN <<a>> ELSE ps
register_peer_insert(ps, found, a) == IF ~found THEN Append(ps, a) ELSE ps

\* lines 82-85: the push, then the guard is dropped at the end of the block
RegisterPeerPush(c) ==
    /\ rq[c].pc = "checked"
    /\ peers' = register_peer_insert(peers, rq[c].found, rq[c].sock)
    /\ rwWriter' = IF rwWriter = c THEN NoClient ELSE rwWriter
    /\ rq' = [rq EXCEPT ![c].pc = "respond"]
    /\ UNCHANGED <<registryUp, rwReaders, nreq, accepted, completed>>
    /\ UNCHANGED <<nodeVars, auxVars>>

\* lines 87-90: 200 with raw_socket_addr echoed
RegisterPeerRespond(c) ==
    /\ rq[c].pc = "respond"
    /\ rq' = [rq EXCEPT ![c].pc = "done", ![c].status = 200,
                        ![c].echo = rq[c].body.text]
    /\ completed' = completed \cup {rq[c].sock}
    /\ UNCHANGED <<registryUp, peers, rwWriter, rwReaders, nreq, accepted>>
    /\ UNCHANGED <<nodeVars, auxVars>>

\* serde_json::to_string(&*peers): a JSON array of the canonical texts
render_peers(ps) == [i \in 1..Len(ps) |-> SocketAddr_to_string(ps[i])]

\* get_peers, lines 94-96: read lock, render
GetPeersRead(c) ==
    /\ rq[c].pc = "get_peers"
    /\ read_lock_free(c)
    /\ rwReaders' = rwReaders \cup {c}
    /\ rq' = [rq EXCEPT ![c].pc = "rendered", ![c].list = render_peers(peers),
                        ![c].seen = completed]
    /\ UNCHANGED <<registryUp, peers, rwWriter, nreq, accepted, completed>>
    /\ UNCHANGED <<nodeVars, auxVars>>

\* get_peers, lines 98-102: 200 with the rendered list; the guard is dropped
GetPeersRespond(c) ==
    /\ rq[c].pc = "rendered"
    /\ rwReaders' = rwReaders \ {c}
    /\ rq' = [rq EXCEPT ![c].pc = "done", ![c].status = 200]
    /\ UNCHANGED <<registryUp, peers, rwWriter, nreq, accepted, completed>>
    /\ UNCHANGED <<nodeVars, auxVars>>

NextRegistry ==
    \E c \in RegClients :
        \/ ClientPostRegister(c)
        \/ ClientGetPeers(c)
        \/ RegisterPeerParse(c)
        \/ RegisterPeerLock(c)
        \/ RegisterPeerContains(c)
        \/ RegisterPeerPush(c)
        \/ RegisterPeerRespond(c)
        \/ GetPeersRead(c)
        \/ GetPeersRespond(c)

SpecRegistry == InitRegistry /\ [][NextRegistry]_vars

(***************************************************************************)
(* Claims about the Registry, checked under SpecRegistry.                  *)
(***************************************************************************)
NoDuplicates(ps) == \A i, j \in DOMAIN ps : i # j => ps[i] # ps[j]

\* C4: the PeerSet never holds an address twice; a registration of an
\* address that is already present leaves the PeerSet unchanged; the
\* membership test and the insertion of one request run under the write
\* lock, which nobody else holds meanwhile.
C4_RegistrySetSemantics ==
    /\ [](NoDuplicates(peers))
    /\ [](\A c \in RegClients :
            rq[c].pc \in {"locked", "checked"} =>
                rwWriter = c /\ rwReaders = {}
                /\ rq[c].found = (rq[c].pc = "checked" /\ rq[c].sock \in Range(peers)))
    /\ [][\A c \in RegClients :
            (rq[c].pc = "checked" /\ rq'[c].pc = "respond"
                /\ rq[c].sock \in Range(peers)) => peers' = peers]_vars

\* two registrations of the same new address were in flight together (by two
\* different texts), one inserted it and the other found it present
C4_Witness ==
    \E c, d \in RegClients :
        /\ c # d
        /\ rq[c].pc = "respond" /\ rq[d].pc = "respond"
        /\ rq[c].sock = rq[d].sock
        /\ rq[c].body # rq[d].body
        /\ ~rq[c].found /\ rq[d].found
        /\ Len(peers) = 1

AddrsOfTexts(ts) == {SocketAddr_from_str(ts[i]) : i \in DOMAIN ts}
IsPrefix(s, t) == Len(s) <= Len(t) /\ \A i \in DOMAIN s : s[i] = t[i]

\* C5 as stated: the body of a GET /peers response is exactly the set of
\* addresses whose POST /register has completed with 200 when the response
\* is made.
C5_GetPeersExactlyCompleted ==
    [][\A c \in RegClients :
        (rq[c].pc = "rendered" /\ rq'[c].pc = "done") =>
            AddrsOfTexts(rq'[c].list) = completed']_vars

\* C5 amended: the PeerSet starts empty and only grows; the body of a
\* GET /peers response is the PeerSet as it was when the handler held the
\* read lock: it holds every address whose POST /register had completed with
\* 200 by then, and only addresses that a valid POST /register submitted
\* (one that may still be waiting for its 200).
C5_GetPeersSnapshot ==
    /\ peers = <<>>
    /\ [](\A c \in RegClients :
            /\ rq[c].pc = "rendered" => rq[c].list = [i \in DOMAIN peers |-> SocketAddr_to_string(peers[i])]
            /\ (rq[c].method = "GET" /\ rq[c].pc \in {"rendered", "done"}) =>
                  /\ rq[c].seen \subseteq AddrsOfTexts(rq[c].list)
                  /\ AddrsOfTexts(rq[c].list) \subseteq accepted
                  /\ NoAddr \notin AddrsOfTexts(rq[c].list))
    /\ [](completed \subseteq Range(peers) /\ Range(peers) \subseteq accepted)
    /\ [][IsPrefix(peers, peers')]_vars

\* a GET /peers answered with both addresses, one of them registered by a
\* POST that has not been answered yet
C5_Witness ==
    \E c, d \in RegClients :
        /\ rq[c].method = "GET" /\ rq[c].pc = "done" /\ rq[c].status = 200
        /\ Len(rq[c].list) = 2
        /\ rq[c].seen # {}
        /\ rq[d].pc = "respond" /\ rq[d].sock \notin completed

ValidRegisterBody(b) == b.utf8 /\ b.text \in ParsableTexts

\* C6: POST /register is answered 200 with the body echoed iff the body is
\* valid UTF-8 and parses as a socket address; otherwise it is answered 400
\* and no step of that request changes the PeerSet.
C6_RegisterValidation ==
    /\ [](\A c \in RegClients :
            (rq[c].method = "POST" /\ rq[c].pc = "done") =>
                /\ rq[c].status \in {200, 400}
                /\ (rq[c].status = 200 /\ rq[c].echo = rq[c].body.text)
                      <=> ValidRegisterBody(rq[c].body)
                /\ ~ValidRegisterBody(rq[c].body) => rq[c].status = 400)
    /\ [](\A c \in RegClients :
            (rq[c].method = "POST" /\ ~ValidRegisterBody(rq[c].body)) =>
                rq[c].pc \in {"register_peer", "done"})
    /\ [][\A c \in RegClients :
            (rq[c].method = "POST" /\ rq'[c] # rq[c] /\ rq'[c].method = "POST"
                /\ ~ValidRegisterBody(rq'[c].body)) => peers' = peers]_vars

\* one POST answered 400 for bytes that are not UTF-8, one answered 400 for
\* an unparsable text, after an address was registered
C6_Witness ==
    \E c, d \in RegClients :
        /\ rq[c].pc = "done" /\ rq[c].status = 400 /\ ~rq[c].body.utf8
        /\ rq[d].pc = "done" /\ rq[d].status = 400 /\ rq[d].body.utf8
        /\ peers # <<>>

(***************************************************************************)
(* Requests.  A request goes to the process bound to the port it names;    *)
(* warp hands it to a handler when the path and the method match the       *)
(* handler's filters and rejects it otherwise.                             *)
(***************************************************************************)
\* sync.rs:109, 167-170, 154: the URLs the loops use
PeersUrlPath == <<"api", "v1", "peers">>
RegisterUrlPath == <<"api", "v1", "register">>
ChangesUrlPath == <<"api", "v1", "changes">>

\* registry.rs:36-56 (the Registry's filters and bind) and sync.rs:33-61
\* (the node's filter and listener)
Route(port, method, path) ==
    IF port = RegistryBindPort /\ registryUp
    THEN IF Len(path) >= 3 /\ path[1] = "api" /\ path[2] = "v1"
              /\ path[3] = "register" /\ method = "POST" THEN "register_peer"
         ELSE IF Len(path) >= 3 /\ path[1] = "api" /\ path[2] = "v1"
              /\ path[3] = "peers" /\ method = "GET" THEN "get_peers"
         ELSE "rejected"
    ELSE IF \E m \in Nodes : local_addr[m] = port
    THEN IF Len(path) >= 1 /\ path[1] = "changes" /\ method = "GET"
         THEN "serve_changes" ELSE "rejected"
    ELSE "unbound"

NodeAt(port) == CHOOSE m \in Nodes : local_addr[m] = port

\* Sync::serve_changes (sync.rs:64-106)
serve_changes(d, raw) ==
    LET hs == deserialize_change_hashes(raw) IN
    IF ~hs.ok THEN [status |-> 400, body |-> NotJson]
    ELSE LET cs == get_changes(d, hs.val) IN
         IF ~cs.ok THEN [status |-> 400, body |-> NotJson]
         ELSE [status |-> 200, body |-> serialize_changes(cs.val)]

PeerLists == UNION {[1..k -> PeerAddrs] : k \in 0..MaxPeers}
ForeignBatches == {<<>>, <<F1>>, <<F1, F1b>>}

Answer(st, b) == [state |-> "answered", status |-> st, body |-> b]
SendError == [state |-> "send_error", status |-> 0, body |-> NotJson]
NoAnswer == [state |-> "no_answer", status |-> 0, body |-> NotJson]

\* What can come back for POST http://{peer}/api/v1/changes with body raw.
\* An address nobody has bound refuses the connection; a foreign process may
\* refuse, accept and never answer, answer noise or answer a batch.
ExchangeOutcomes(peer, raw) ==
    LET h == Route(peer, "POST", ChangesUrlPath) IN
    IF h = "serve_changes"
    THEN LET r == serve_changes(doc[NodeAt(peer)], raw) IN {Answer(r.status, r.body)}
    ELSE IF h = "unbound"
    THEN IF foreign /\ peer \in ForeignPeers
         THEN {SendError, NoAnswer, Answer(200, NotJson)}
                \cup {Answer(200, serialize_changes(b)) : b \in ForeignBatches}
         ELSE {SendError}
    ELSE {Answer(404, NotJson)}

(***************************************************************************)
(* The pull loop: Sync::query_changes (sync.rs:108-144)                    *)
(***************************************************************************)
Log(n, line) == errlog' = [errlog EXCEPT ![n] = @ \cup {line}]

BeginCycle(n, list) ==
    /\ cycles[n] < MaxCycles
    /\ cycles' = [cycles EXCEPT ![n] = @ + 1]
    /\ peerList' = [peerList EXCEPT ![n] = list]
    /\ idx' = [idx EXCEPT ![n] = 0]
    /\ contacted' = [contacted EXCEPT ![n] = <<>>]
    /\ results' = [results EXCEPT ![n] = <<>>]
    /\ owed' = [owed EXCEPT ![n] = {}]
    /\ sentInCycle' = [sentInCycle EXCEPT ![n] = 0]
    /\ pc' = [pc EXCEPT ![n] = "iter"]
    /\ UNCHANGED errlog

\* lines 112-128: GET {REGISTRY_ADDR}/api/v1/peers and parse the body
PullGetPeers(n) ==
    /\ pc[n] = "get_peers"
    /\ LET h == Route(REGISTRY_ADDR, "GET", PeersUrlPath) IN
       \/ /\ h = "get_peers"
          /\ BeginCycle(n, [i \in DOMAIN peers |->
                               SocketAddr_from_str(render_peers(peers)[i])])
       \/ /\ h = "rejected"
          /\ Log(n, "Failed to parse peers")
          /\ UNCHANGED cycleVars
       \/ /\ h = "unbound"
          /\ \/ /\ Log(n, "Failed to get peers from registry")
                /\ UNCHANGED cycleVars
             \/ /\ foreign
                /\ \/ /\ Log(n, "Failed to parse peers")
                      /\ UNCHANGED cycleVars
                   \/ /\ pc' = [pc EXCEPT ![n] = "panicked"]
                      /\ UNCHANGED <<peerList, idx, xch, contacted, results, owed,
                                     sentInCycle, cycles, errlog>>
                   \/ \E list \in PeerLists : BeginCycle(n, list)
    /\ gap' = [gap EXCEPT ![n] = slept[n]]
    /\ slept' = [slept EXCEPT ![n] = 0]
    /\ UNCHANGED <<xch, foreign, local_addr, doc, edits, hub, got, inputs, regVars>>
    /\ UNCHANGED <<registryVars, auxVars>>

\* line 131: the test peer == local_addr of two SocketAddr values
is_self_never(peer, addr) == FALSE
is_self(peer, addr) == peer = addr

\* lines 131-133: if peer == local_addr { continue }
PullSkipSelf(n) ==
    /\ pc[n] = "iter"
    /\ idx[n] < Len(peerList[n])
    /\ is_self(peerList[n][idx[n] + 1], local_addr[n])
    /\ idx' = [idx EXCEPT ![n] = @ + 1]
    /\ UNCHANGED <<pc, peerList, xch, contacted, results, owed, sentInCycle, cycles>>
    /\ UNCHANGED <<foreign, local_addr, doc, edits, hub, got, inputs, regVars, errlog>>
    /\ UNCHANGED <<slept, gap>>
    /\ UNCHANGED <<registryVars, auxVars>>

\* query_changes_from_peer, lines 151-159: read the heads, post them
PullSend(n) ==
    /\ pc[n] = "iter"
    /\ idx[n] < Len(peerList[n])
    /\ LET peer == peerList[n][idx[n] + 1]
           raw == serialize_change_hashes(get_heads(doc[n])) IN
       /\ ~is_self(peer, local_addr[n])
       /\ \E o \in ExchangeOutcomes(peer, raw) : xch' = [xch EXCEPT ![n] = o]
       /\ contacted' = [contacted EXCEPT ![n] = Append(@, peer)]
       /\ owed' = [owed EXCEPT ![n] =
                     IF \E m \in Nodes : local_addr[m] = peer
                     THEN @ \cup Hashes(Applied(doc[NodeAt(peer)])) ELSE @]
    /\ pc' = [pc EXCEPT ![n] = "await"]
    /\ UNCHANGED <<peerList, idx, results, sentInCycle, cycles>>
    /\ UNCHANGED <<foreign, local_addr, doc, edits, hub, got, inputs, regVars, errlog>>
    /\ UNCHANGED <<slept, gap>>
    /\ UNCHANGED <<registryVars, auxVars>>

\* query_changes_from_peer, lines 155-163: what the exchange returns and the
\* document after it
exchange_result(d, x) ==
    IF x.state = "send_error" THEN [ok |-> FALSE, doc |-> d]
    ELSE LET cs == deserialize_changes(x.body) IN
         IF ~cs.ok THEN [ok |-> FALSE, doc |-> d]
         ELSE apply_changes(d, cs.val)

\* lines 135-138: an Err is logged and the for loop continues with the next
\* peer.  The result is the number of entries consumed afterwards.
after_peer_error_break(i, len) == len
after_peer_error(i, len) == i + 1

\* lines 130-141: the events the loop sends at a position of a cycle: none
\* when an exchange has ended, Event::Pull when the for loop has ended
pull_events_each_peer(position, q) == Append(q, PullEvent)
pull_events_report(position, q) ==
    IF position = "cycle_done" THEN Append(q, PullEvent)
    ELSE IF position = "peer_error" THEN Append(q, Event("Error", "")) ELSE q
pull_events(position, q) ==
    IF position = "cycle_done" THEN Append(q, PullEvent) ELSE q

\* lines 135-138 and query_changes_from_peer, lines 159-163
PullRecv(n) ==
    /\ pc[n] = "await"
    /\ xch[n].state \in {"send_error", "answered"}
    /\ LET r == exchange_result(doc[n], xch[n])
           q == pull_events(IF r.ok THEN "peer_ok" ELSE "peer_error", hub[n]) IN
       /\ doc' = [doc EXCEPT ![n] = r.doc]
       /\ results' = [results EXCEPT ![n] = Append(@, r.ok)]
       /\ idx' = [idx EXCEPT ![n] =
                    IF r.ok THEN @ + 1 ELSE after_peer_error(@, Len(peerList[n]))]
       /\ IF r.ok THEN UNCHANGED errlog ELSE Log(n, "Failed to sync with peer")
       /\ hub' = [hub EXCEPT ![n] = q]
       /\ sentInCycle' = [sentInCycle EXCEPT ![n] = @ + Len(q) - Len(hub[n])]
    /\ xch' = [xch EXCEPT ![n] = NoExchange]
    /\ pc' = [pc EXCEPT ![n] = "iter"]
    /\ UNCHANGED <<peerList, contacted, owed, cycles>>
    /\ UNCHANGED <<foreign, local_addr, edits, got, inputs, regVars>>
    /\ UNCHANGED <<slept, gap>>
    /\ UNCHANGED <<registryVars, auxVars>>

\* line 141: let _ = self.tx.send(Event::Pull), then the sleep of line 142
PullEmit(n) ==
    /\ pc[n] = "iter"
    /\ idx[n] >= Len(peerList[n])
    /\ LET q == pull_events("cycle_done", hub[n]) IN
       /\ hub' = [hub EXCEPT ![n] = q]
       /\ sentInCycle' = [sentInCycle EXCEPT ![n] = @ + Len(q) - Len(hub[n])]
    /\ pc' = [pc EXCEPT ![n] = "sleep"]
    /\ UNCHANGED <<peerList, idx, xch, contacted, results, owed, cycles>>
    /\ UNCHANGED <<foreign, local_addr, doc, edits, got, inputs, regVars, errlog>>
    /\ UNCHANGED <<slept, gap>>
    /\ UNCHANGED <<registryVars, auxVars>>

\* line 142: tokio::time::sleep(7 s) ends and the loop starts over; the
\* locals of the loop body are gone
PullWake(n) ==
    /\ pc[n] = "sleep"
    /\ pc' = [pc EXCEPT ![n] = "get_peers"]
    /\ peerList' = [peerList EXCEPT ![n] = <<>>]
    /\ idx' = [idx EXCEPT ![n] = 0]
    /\ contacted' = [contacted EXCEPT ![n] = <<>>]
    /\ results' = [results EXCEPT ![n] = <<>>]
    /\ owed' = [owed EXCEPT ![n] = {}]
    /\ sentInCycle' = [sentInCycle EXCEPT ![n] = 0]
    /\ slept' = [slept EXCEPT ![n] = PullIntervalSecs]
    /\ UNCHANGED <<xch, cycles, gap>>
    /\ UNCHANGED <<foreign, local_addr, doc, edits, hub, got, inputs, regVars, errlog>>
    /\ UNCHANGED <<registryVars, auxVars>>

(***************************************************************************)
(* The register loop: Sync::register (sync.rs:166-183)                     *)
(***************************************************************************)
\* lines 173-180: POST {REGISTRY_ADDR}/api/v1/register with the text of
\* local_addr; an Err of send() is logged; then the sleep of line 181
after_register_retry(sent) == IF sent THEN "sleep" ELSE "post"
after_register(sent) == "sleep"

RegisterPost(n) ==
    /\ regpc[n] = "post"
    /\ LET h == Route(REGISTRY_ADDR, "POST", RegisterUrlPath)
           b == Body(TRUE, SocketAddr_to_string(local_addr[n]))
           a == SocketAddr_from_str(b.text) IN
       /\ posted' = [posted EXCEPT ![n] = @ \cup {a}]
       /\ \/ /\ h = "register_peer"
             /\ IF register_peer_validate(b) = 0
                THEN /\ peers' = register_peer_insert(peers, a \in Range(peers), a)
                     /\ accepted' = accepted \cup {a}
                     /\ completed' = completed \cup {a}
                ELSE UNCHANGED <<peers, accepted, completed>>
             /\ UNCHANGED errlog
             /\ regres' = [regres EXCEPT ![n] = "sent"]
          \/ /\ h = "rejected"
             /\ UNCHANGED <<peers, accepted, completed, errlog>>
             /\ regres' = [regres EXCEPT ![n] = "sent"]
          \/ /\ h = "unbound"
             /\ \/ /\ Log(n, "Failed to register client to registry")
                   /\ regres' = [regres EXCEPT ![n] = "err"]
                \/ /\ foreign /\ UNCHANGED errlog
                   /\ regres' = [regres EXCEPT ![n] = "sent"]
             /\ UNCHANGED <<peers, accepted, completed>>
       /\ regpc' = [regpc EXCEPT ![n] = after_register(regres'[n] = "sent")]
    /\ regSlept' = [regSlept EXCEPT ![n] = 0]
    /\ UNCHANGED <<registryUp, rwWriter, rwReaders, rq, nreq>>
    /\ UNCHANGED <<foreign, local_addr, doc, edits, pullVars, hub, got, inputs>>
    /\ UNCHANGED auxVars

\* line 181: tokio::time::sleep(9 s) ends, the loop starts over
RegisterWake(n) ==
    /\ regpc[n] = "sleep"
    /\ regpc' = [regpc EXCEPT ![n] = "post"]
    /\ regSlept' = [regSlept EXCEPT ![n] = RegisterIntervalSecs]
    /\ UNCHANGED <<regres, posted>>
    /\ UNCHANGED <<foreign, local_addr, doc, edits, pullVars, hub, got, inputs, errlog>>
    /\ UNCHANGED <<registryVars, auxVars>>

(***************************************************************************)
(* The event channel and the input thread (controller/mod.rs:73-91)        *)
(***************************************************************************)
\* Controller::poll_terminal: read one terminal event and send it; an Err
\* of the read is logged by poll_terminal_thread
PollTerminal(n) ==
    /\ inputs[n] < MaxInputs
    /\ inputs' = [inputs EXCEPT ![n] = @ + 1]
    /\ \/ /\ \E k \in Inputs : hub' = [hub EXCEPT ![n] = Append(@, Event("Terminal", k))]
          /\ UNCHANGED errlog
       \/ /\ Log(n, "Error while polling")
          /\ UNCHANGED hub
    /\ UNCHANGED <<foreign, local_addr, doc, edits, pullVars, got, regVars>>
    /\ UNCHANGED <<registryVars, auxVars>>

\* Controller::get_event: rx.recv() returns the oldest event, and waits
\* while there is none
GetEvent(n) ==
    /\ hub[n] # <<>>
    /\ got' = [got EXCEPT ![n] = Head(hub[n])]
    /\ hub' = [hub EXCEPT ![n] = Tail(@)]
    /\ UNCHANGED <<foreign, local_addr, doc, edits, pullVars, inputs, regVars, errlog>>
    /\ UNCHANGED <<registryVars, auxVars>>

\* A local edit (Database::add_task, Task::splice_title, ...:
\* database.rs:79-93, 144-179) makes a change on top of the current heads.
LocalEdit(n) ==
    /\ edits[n] < MaxEdits
    /\ edits' = [edits EXCEPT ![n] = @ + 1]
    /\ doc' = [doc EXCEPT ![n] =
                 @ \cup {Change(ActorBase(n) + edits[n] + 1, n, edits[n] + 2,
                                Range(get_heads(@)))}]
    /\ UNCHANGED <<foreign, local_addr, pullVars, hub, got, inputs, regVars, errlog>>
    /\ UNCHANGED <<registryVars, auxVars>>

(***************************************************************************)
(* The node's listener: Sync::start (sync.rs:51-61) and Sync::serve_changes *)
(* (sync.rs:64-106).  warp runs the handler once for each request that     *)
(* passes the filters and goes on serving whatever the handler returned.   *)
(***************************************************************************)
\* frontiers a client can send: empty, heads of a document, a hash that no
\* document of this program holds
ServeFrontiers == {<<>>, <<10>>, <<11>>, <<20>>, <<10, 20>>, <<31>>}

\* bodies a client can send: frontiers, a body that is no JSON, and a batch
\* of changes (JSON of another shape)
ServeBodies ==
    {serialize_change_hashes(f) : f \in ServeFrontiers}
        \cup {NotJson, serialize_changes(<<F1>>)}

ServeRequests ==
    {Request(m, p, b) : m \in {"GET", "POST"},
                        p \in {<<"changes">>, ChangesUrlPath},
                        b \in ServeBodies}

\* A request arrives at the listener of node n.
ServeAccept(n) ==
    /\ srv[n] = NoRequest
    /\ Len(served[n]) < MaxRequests
    /\ \E r \in ServeRequests : srv' = [srv EXCEPT ![n] = r]
    /\ UNCHANGED served
    /\ UNCHANGED notServe

\* sync.rs:51-56 and 64-106: the filters select the handler, the handler
\* builds the response; a request no filter accepts is rejected by warp
serve_respond_stop(route, d, raw) ==
    LET r == serve_changes(d, raw) IN
    [status |-> IF route = "serve_changes" THEN r.status ELSE 404,
     body |-> IF route = "serve_changes" THEN r.body ELSE NotJson,
     up |-> route # "serve_changes" \/ r.status = 200]
serve_respond(route, d, raw) ==
    IF route = "serve_changes"
    THEN LET r == serve_changes(d, raw) IN
         [status |-> r.status, body |-> r.body, up |-> TRUE]
    ELSE [status |-> 404, body |-> NotJson, up |-> TRUE]

ServeRespond(n) ==
    /\ srv[n] # NoRequest
    /\ LET route == Route(local_addr[n], srv[n].method, srv[n].path)
           r == serve_respond(route, doc[n], srv[n].raw) IN
       /\ served' = [served EXCEPT ![n] =
                       Append(@, [route |-> route, raw |-> srv[n].raw,
                                  status |-> r.status, body |-> r.body])]
       /\ srv' = [srv EXCEPT ![n] =
                    IF r.up THEN NoRequest ELSE Request("closed", <<>>, NotJson)]
    /\ UNCHANGED notServe

(***************************************************************************)
(* Specifications.                                                         *)
(*   Spec        the loops of one node, next to a second constructed node, *)
(*               where a foreign process may answer on the ports this      *)
(*               program has not bound (REGISTRY_ADDR among them)          *)
(*   SpecClosed  the loops of both nodes, and nothing but this program     *)
(***************************************************************************)
LoopNodes == {"Y"}

Init == RegistryInit /\ NodesInit /\ AuxInit /\ foreign = TRUE

Next ==
    \/ \E n \in LoopNodes :
        \/ PullGetPeers(n)
        \/ PullSkipSelf(n)
        \/ PullSend(n)
        \/ PullRecv(n)
        \/ PullEmit(n)
        \/ PullWake(n)
        \/ PollTerminal(n)
        \/ GetEvent(n)
    \/ \E n \in LoopNodes : LocalEdit(n)

Spec == Init /\ [][Next]_vars

\* the tokio runtime polls every task that can make progress
PullFairness(n) ==
    /\ WF_vars(PullGetPeers(n)) /\ WF_vars(PullSkipSelf(n))
    /\ WF_vars(PullSend(n)) /\ WF_vars(PullRecv(n))
    /\ WF_vars(PullEmit(n)) /\ WF_vars(PullWake(n))
RegisterFairness(n) == WF_vars(RegisterPost(n)) /\ WF_vars(RegisterWake(n))

FairSpec == Spec /\ \A n \in LoopNodes : PullFairness(n) /\ WF_vars(GetEvent(n))

\* the register loops of both nodes, where a foreign process may answer on
\* REGISTRY_ADDR
NextRegister ==
    \E n \in Nodes :
        \/ RegisterPost(n)
        \/ RegisterWake(n)
        \/ LocalEdit(n)

SpecRegister == Init /\ [][NextRegister]_vars

FairRegister == SpecRegister /\ \A n \in Nodes : RegisterFairness(n)

\* the listener of one node and the edits of its user
ServeNodes == {"X"}

NextServe ==
    \E n \in ServeNodes :
        \/ ServeAccept(n)
        \/ ServeRespond(n)
        \/ LocalEdit(n)

SpecServe == Init /\ [][NextServe]_vars

InitClosed == RegistryInit /\ NodesInit /\ AuxInit /\ foreign = FALSE

NextClosed ==
    \E n \in Nodes :
        \/ PullGetPeers(n)
        \/ RegisterPost(n)
        \/ RegisterWake(n)
        \/ PollTerminal(n)
        \/ GetEvent(n)
        \/ LocalEdit(n)

SpecClosed == InitClosed /\ [][NextClosed]_vars

FairClosed ==
    SpecClosed /\ \A n \in Nodes :
                      /\ WF_vars(PullGetPeers(n)) /\ RegisterFairness(n)
                      /\ WF_vars(GetEvent(n))

(***************************************************************************)
(* The thread-based Controller (controller.rs): pull_thread, pull,         *)
(* poll_terminal_thread, poll_terminal and get_event.  SyncServer          *)
(* (main.rs:166-233) has the same queue, Condvar and pull thread.          *)
(***************************************************************************)
MaxAttempts == 2

TLog(line) == tlog' = tlog \cup {line}

\* controller.rs:117 inside the loop of 100-114: TcpStream::connect.  A
\* refused connection takes the `continue` of line 106; another error is
\* logged and followed by the sleep of line 112.
after_refused == "connect"

PullConnect ==
    /\ tpc["pull"] = "connect"
    /\ attempts < MaxAttempts
    /\ attempts' = attempts + 1
    /\ waited' = 0
    /\ \/ /\ tpc' = [tpc EXCEPT !["pull"] = after_refused]
          /\ UNCHANGED tlog
       \/ /\ tpc' = [tpc EXCEPT !["pull"] = "sleep"]
          /\ TLog("Error while pulling")
       \/ /\ tpc' = [tpc EXCEPT !["pull"] = "exchange"]
          /\ UNCHANGED tlog
    /\ UNCHANGED <<event_queue, mutex, pending, made, tdoc, enq, deq>>
    /\ UNCHANGED <<tpull, notHub>>

\* what the peer's side of the connection can give back: a read error, a
\* body that is no batch, a batch
ThreadAnswers ==
    {[ok |-> FALSE, body |-> NotJson], [ok |-> TRUE, body |-> NotJson]}
        \cup {[ok |-> TRUE, body |-> serialize_changes(b)] : b \in ForeignBatches}

\* Controller::serve (controller.rs:83-98) of the peer: the frontier read
\* from the stream is decoded, the changes after it are written back; on an
\* Err nothing is written and the stream is closed
thread_serve(d, raw) ==
    LET hs == deserialize_change_hashes(raw)
        cs == get_changes(d, hs.val) IN
    IF hs.ok /\ cs.ok THEN [ok |-> TRUE, body |-> serialize_changes(cs.val)]
    ELSE [ok |-> FALSE, body |-> NotJson]

\* the documents a peer Controller can hold: what this Controller starts
\* with, and that next to a change of its own
PeerDocs == {{Change(ActorBase("X"), "X", 1, {})},
             {Change(ActorBase("X"), "X", 1, {}), F1}}

\* who is on the other side of self.peer: a Controller of this program with
\* one of PeerDocs, or something else
ThreadPeers ==
    {[controller |-> TRUE, doc |-> d] : d \in PeerDocs}
        \cup {[controller |-> FALSE, doc |-> {}]}

\* controller.rs:121: the frontier that pull writes, &heads[1..]
pull_frontier(heads) == SubSeq(heads, 2, Len(heads))

\* controller.rs:118-129: heads[1..] is written, the answer is read, decoded
\* and applied; every error returns from pull and is logged at line 110
PullExchange ==
    /\ tpc["pull"] = "exchange"
    /\ \E p \in ThreadPeers :
       LET heads == get_heads(tdoc)
           raw == serialize_change_hashes(pull_frontier(heads)) IN
       \E r \in (IF p.controller THEN {thread_serve(p.doc, raw)} ELSE ThreadAnswers) :
         LET cs == deserialize_changes(r.body)
             ap == apply_changes(tdoc, cs.val) IN
         IF heads = <<>>
         THEN /\ tpc' = [tpc EXCEPT !["pull"] = "panicked"]
              /\ UNCHANGED <<tdoc, pending, tlog, tpull>>
         ELSE /\ tpull' = IF p.controller /\ r.ok /\ cs.ok
                          THEN [covered |-> p.doc \subseteq tdoc,
                                heads |-> Len(heads),
                                sent |-> Len(pull_frontier(heads)),
                                batch |-> Len(cs.val)]
                          ELSE NoPull
              /\ IF ~r.ok \/ ~cs.ok
                 THEN /\ tpc' = [tpc EXCEPT !["pull"] = "sleep"]
                      /\ TLog("Error while pulling")
                      /\ UNCHANGED <<tdoc, pending>>
                 ELSE IF ~ap.ok
                 THEN /\ tpc' = [tpc EXCEPT !["pull"] = "sleep"]
                      /\ TLog("Error while pulling")
                      /\ tdoc' = ap.doc
                      /\ UNCHANGED pending
                 ELSE /\ tpc' = [tpc EXCEPT !["pull"] = "lock"]
                      /\ tdoc' = ap.doc
                      /\ pending' = [pending EXCEPT !["pull"] =
                                        Event("Pull", made["pull"] + 1)]
                      /\ UNCHANGED tlog
    /\ UNCHANGED <<event_queue, mutex, made, enq, deq, attempts, waited>>
    /\ UNCHANGED notHub

\* controller.rs:112: thread::sleep(1000 ms)
PullSleep ==
    /\ tpc["pull"] = "sleep"
    /\ tpc' = [tpc EXCEPT !["pull"] = "connect"]
    /\ waited' = 1000
    /\ UNCHANGED <<event_queue, mutex, pending, made, tdoc, enq, deq, attempts, tlog>>
    /\ tpull' = NoPull /\ UNCHANGED notHub

\* controller.rs:147 inside the loop of 139-143: crossterm::event::read
TermRead ==
    /\ tpc["term"] = "read"
    /\ made["term"] < MaxInputs
    /\ \/ /\ pending' = [pending EXCEPT !["term"] = Event("Terminal", made["term"] + 1)]
          /\ tpc' = [tpc EXCEPT !["term"] = "lock"]
          /\ UNCHANGED tlog
       \/ /\ TLog("Error while polling")
          /\ UNCHANGED <<pending, tpc>>
    /\ UNCHANGED <<event_queue, mutex, made, tdoc, enq, deq, attempts, waited>>
    /\ UNCHANGED <<tpull, notHub>>

\* controller.rs:131 and 149: event_queue.lock()
HubLock(t) ==
    /\ tpc[t] = "lock"
    /\ mutex = NoThread
    /\ mutex' = t
    /\ tpc' = [tpc EXCEPT ![t] = "push"]
    /\ UNCHANGED <<event_queue, pending, made, tdoc, enq, deq, attempts, waited, tlog>>
    /\ tpull' = (IF t = "pull" THEN NoPull ELSE tpull) /\ UNCHANGED notHub

\* controller.rs:132 and 150: event_queue.push_back(event)
push_back(q, e) == Append(q, e)

HubPush(t) ==
    /\ tpc[t] = "push"
    /\ event_queue' = push_back(event_queue, pending[t])
    /\ enq' = Append(enq, pending[t])
    /\ made' = [made EXCEPT ![t] = @ + 1]
    /\ tpc' = [tpc EXCEPT ![t] = "notify"]
    /\ UNCHANGED <<mutex, pending, tdoc, deq, attempts, waited, tlog>>
    /\ UNCHANGED <<tpull, notHub>>

\* controller.rs:133 and 151: has_event.notify_one() wakes the thread that
\* waits on the Condvar, if there is one
notify_none(p) == p
notify_one(p) == IF p["ui"] = "asleep" THEN [p EXCEPT !["ui"] = "woken"] ELSE p

HubNotify(t) ==
    /\ tpc[t] = "notify"
    /\ tpc' = [notify_one(tpc) EXCEPT ![t] = "unlock"]
    /\ UNCHANGED <<event_queue, mutex, pending, made, tdoc, enq, deq, attempts, waited, tlog>>
    /\ UNCHANGED <<tpull, notHub>>

\* controller.rs:135 and 152: the guard is dropped on return; pull_thread
\* goes to its sleep, poll_terminal_thread reads again
HubUnlock(t) ==
    /\ tpc[t] = "unlock"
    /\ mutex' = NoThread
    /\ tpc' = [tpc EXCEPT ![t] = IF t = "pull" THEN "sleep" ELSE "read"]
    /\ UNCHANGED <<event_queue, pending, made, tdoc, enq, deq, attempts, waited, tlog>>
    /\ UNCHANGED <<tpull, notHub>>

\* controller.rs:67 and the return of has_event.wait at line 69: the
\* caller takes the Mutex
GetEventLock ==
    /\ tpc["ui"] \in {"call", "woken"}
    /\ mutex = NoThread
    /\ mutex' = "ui"
    /\ tpc' = [tpc EXCEPT !["ui"] = IF tpc["ui"] = "call" THEN "check" ELSE "recheck"]
    /\ UNCHANGED <<event_queue, pending, made, tdoc, enq, deq, attempts, waited, tlog>>
    /\ UNCHANGED <<tpull, notHub>>

\* controller.rs:68-69: the test of the while loop, made with the Mutex
\* held when get_event is entered and again whenever wait has returned; on
\* an empty queue has_event.wait releases the Mutex and blocks
after_wait_once(len, woken) == IF len = 0 /\ ~woken THEN "asleep" ELSE "pop"
after_wait(len, woken) == IF len = 0 THEN "asleep" ELSE "pop"

GetEventCheck ==
    /\ tpc["ui"] \in {"check", "recheck"}
    /\ tpc' = [tpc EXCEPT !["ui"] =
                 after_wait(Len(event_queue), tpc["ui"] = "recheck")]
    /\ mutex' = IF tpc'["ui"] = "asleep" THEN NoThread ELSE mutex
    /\ UNCHANGED <<event_queue, pending, made, tdoc, enq, deq, attempts, waited, tlog>>
    /\ UNCHANGED <<tpull, notHub>>

\* controller.rs:71: event_queue.pop_front().unwrap() is returned and the
\* guard dropped; unwrap panics on the None of an empty queue, and the
\* Mutex stays with the panicked thread's guard until it unwinds
pop_back(q) == [event |-> q[Len(q)], rest |-> SubSeq(q, 1, Len(q) - 1)]
pop_front(q) == [event |-> Head(q), rest |-> Tail(q)]

GetEventPop ==
    /\ tpc["ui"] = "pop"
    /\ IF Len(event_queue) = 0
       THEN /\ tpc' = [tpc EXCEPT !["ui"] = "panicked"]
            /\ UNCHANGED <<event_queue, deq>>
       ELSE /\ tpc' = [tpc EXCEPT !["ui"] = "call"]
            /\ event_queue' = pop_front(event_queue).rest
            /\ deq' = Append(deq, pop_front(event_queue).event)
    /\ mutex' = NoThread
    /\ UNCHANGED <<pending, made, tdoc, enq, attempts, waited, tlog>>
    /\ UNCHANGED <<tpull, notHub>>

\* std::sync::Condvar::wait may return without a notification
SpuriousWake ==
    /\ tpc["ui"] = "asleep"
    /\ tpc' = [tpc EXCEPT !["ui"] = "woken"]
    /\ UNCHANGED <<event_queue, mutex, pending, made, tdoc, enq, deq, attempts, waited, tlog>>
    /\ UNCHANGED <<tpull, notHub>>

NextHub ==
    \/ PullConnect
    \/ PullExchange
    \/ PullSleep
    \/ TermRead
    \/ \E t \in Producers : HubLock(t)
    \/ \E t \in Producers : HubPush(t)
    \/ \E t \in Producers : HubNotify(t)
    \/ \E t \in Producers : HubUnlock(t)
    \/ GetEventLock
    \/ GetEventCheck
    \/ GetEventPop
    \/ SpuriousWake

SpecHub == InitClosed /\ [][NextHub]_vars

\* the operating system runs every thread that can take a step, and a
\* thread that waits for a Mutex gets it when it is released again and
\* again; terminal input, the peer's answers and spurious returns of wait
\* are not owed
FairHub ==
    /\ SpecHub
    /\ WF_vars(PullConnect) /\ WF_vars(PullExchange) /\ WF_vars(PullSleep)
    /\ \A t \in Producers :
         /\ SF_vars(HubLock(t)) /\ WF_vars(HubPush(t))
         /\ WF_vars(HubNotify(t)) /\ WF_vars(HubUnlock(t))
    /\ SF_vars(GetEventLock) /\ WF_vars(GetEventCheck) /\ WF_vars(GetEventPop)

(***************************************************************************)
(* The Database of one node under its three callers: the listener          *)
(* (Sync::serve_changes), the pull loop (Sync::query_changes_from_peer)    *)
(* and the local edits of the user interface.  Each Database method takes  *)
(* the Mutex of doc in its first statement and drops the guard when it     *)
(* returns (database.rs:57-93).                                            *)
(***************************************************************************)
MaxCalls == 2

DocNode == "X"

\* Mutex::lock (database.rs:58, 64, 74, 80): granted when no guard exists
doc_lock(holder, a) == IF holder = NoThread THEN a ELSE holder

\* the guard is a local of the method and is dropped at its return
\* (database.rs:60, 71, 77, 93)
doc_unlock_keep(holder) == holder
doc_unlock(holder) == NoThread

\* the document after a Database method: get_heads and get_changes read,
\* apply_changes applies the batch, add_task makes a change on top of the
\* heads (database.rs:57-93)
doc_after_commit(op, d, batch, c) ==
    IF op = "apply_changes" THEN apply_changes(d, batch).doc
    ELSE IF op \in {"add_task", "get_changes"} THEN d \cup {c}
    ELSE d
doc_after(op, d, batch, c) ==
    IF op = "apply_changes" THEN apply_changes(d, batch).doc
    ELSE IF op = "add_task" THEN d \cup {c}
    ELSE d

\* a task calls a Database method
DocCall(a, op, arg) ==
    /\ lpc[a] = At("idle", FALSE)
    /\ lcalls[a] < MaxCalls
    /\ lpc' = [lpc EXCEPT ![a] = At(op, FALSE)]
    /\ larg' = [larg EXCEPT ![a] = arg]

\* sync.rs:64-76: a request reaches the handler; a body that is no
\* frontier is answered 400 before the Database is called
DocServeAccept ==
    \E raw \in ServeBodies :
        /\ IF deserialize_change_hashes(raw).ok
           THEN /\ DocCall("serve", "get_changes", raw)
                /\ UNCHANGED lserved
           ELSE /\ lpc["serve"] = At("idle", FALSE)
                /\ lserved' = lserved \cup {400}
                /\ UNCHANGED <<lpc, larg>>
        /\ UNCHANGED <<dlock, lcalls, lmid, doc, notDoc>>

\* sync.rs:151: query_changes_from_peer calls get_heads
DocPullHeads ==
    /\ DocCall("pull", "get_heads", NotJson)
    /\ UNCHANGED <<dlock, lcalls, lserved, lmid, doc, notDoc>>

\* a local edit calls add_task (database.rs:79)
DocEditCall ==
    /\ DocCall("edit", "add_task", NotJson)
    /\ UNCHANGED <<dlock, lcalls, lserved, lmid, doc, notDoc>>

\* the first statement of the method: self.doc.lock()
DocAcquire(a) ==
    /\ lpc[a].at \in {"get_heads", "get_changes", "apply_changes", "add_task"}
    /\ ~lpc[a].held
    /\ doc_lock(dlock, a) = a
    /\ dlock' = doc_lock(dlock, a)
    /\ lpc' = [lpc EXCEPT ![a] = At(@.at, TRUE)]
    /\ UNCHANGED <<larg, lcalls, lserved, lmid, doc, notDoc>>

\* the body of the method and its return; the caller goes on: the pull
\* loop to its exchange (sync.rs:152-161) or to the end of the cycle, the
\* handler to its response (sync.rs:78-105), where send_data may fail
DocReturn(a) ==
    /\ lpc[a].held
    /\ LET op == lpc[a].at
           d == doc[DocNode]
           batch == deserialize_changes(larg[a]).val
           c == Change(ActorBase(DocNode) + lcalls["edit"] + 1, DocNode,
                       lcalls["edit"] + 2, Range(get_heads(d))) IN
       /\ doc' = [doc EXCEPT ![DocNode] = doc_after(op, d, batch, c)]
       /\ dlock' = doc_unlock(dlock)
       /\ lcalls' = [lcalls EXCEPT ![a] = @ + 1]
       /\ lmid' = IF op = "get_heads" THEN {}
                  ELSE IF op = "add_task" /\ lpc["pull"].at \in {"await", "apply_changes"}
                  THEN lmid \cup {c} ELSE lmid
       /\ IF op = "get_heads"
          THEN /\ lpc' = [lpc EXCEPT ![a] = At("await", FALSE)]
               /\ larg' = [larg EXCEPT ![a] = serialize_change_hashes(get_heads(d))]
               /\ UNCHANGED lserved
          ELSE IF op = "get_changes"
          THEN /\ lpc' = [lpc EXCEPT ![a] = At("idle", FALSE)]
               /\ larg' = [larg EXCEPT ![a] = NotJson]
               /\ \E st \in (IF get_changes(d, deserialize_change_hashes(larg[a]).val).ok
                             THEN {200, 500} ELSE {400}) :
                     lserved' = lserved \cup {st}
          ELSE /\ lpc' = [lpc EXCEPT ![a] = At("idle", FALSE)]
               /\ larg' = [larg EXCEPT ![a] = NotJson]
               /\ UNCHANGED lserved
    /\ UNCHANGED notDoc

\* sync.rs:154-163: the exchange with a peer ends; a batch that was decoded
\* is handed to apply_changes, an Err ends query_changes_from_peer
DocPullAnswer ==
    /\ lpc["pull"] = At("await", FALSE)
    /\ \E peer \in PeerAddrs \ {local_addr[DocNode]} :
       \E o \in ExchangeOutcomes(peer, larg["pull"]) :
          /\ o.state \in {"send_error", "answered"}
          /\ IF o.state = "answered" /\ deserialize_changes(o.body).ok
             THEN /\ lpc' = [lpc EXCEPT !["pull"] = At("apply_changes", FALSE)]
                  /\ larg' = [larg EXCEPT !["pull"] = o.body]
             ELSE /\ lpc' = [lpc EXCEPT !["pull"] = At("idle", FALSE)]
                  /\ larg' = [larg EXCEPT !["pull"] = NotJson]
    /\ UNCHANGED <<dlock, lcalls, lserved, lmid, doc, notDoc>>

NextDoc ==
    \/ DocServeAccept
    \/ DocPullHeads
    \/ DocEditCall
    \/ \E a \in DocTasks : DocAcquire(a)
    \/ \E a \in DocTasks : DocReturn(a)
    \/ DocPullAnswer

SpecDoc == Init /\ [][NextDoc]_vars

(***************************************************************************)
(* The codecs (serialization.rs, controller/mod.rs:100-125) and            *)
(* Database::apply_changes, each applied to one input.                     *)
(***************************************************************************)
MaxHashes == 2
MaxBytes == 65

CHANGE_HASH_WIDTH == 32

\* a ChangeHash is an array of CHANGE_HASH_WIDTH bytes
SampleHashes ==
    {[i \in 1..CHANGE_HASH_WIDTH |-> 0], [i \in 1..CHANGE_HASH_WIDTH |-> 255],
     [i \in 1..CHANGE_HASH_WIDTH |-> i]}

SeqsUpTo(S, k) == UNION {[1..j -> S] : j \in 0..k}

\* serialization.rs:8-14: the bytes of the hashes, one hash after the other
RECURSIVE serialization_serialize_change_hashes_rev(_)
serialization_serialize_change_hashes_rev(hashes) ==
    IF hashes = <<>> THEN <<>>
    ELSE serialization_serialize_change_hashes_rev(Tail(hashes)) \o Head(hashes)

RECURSIVE serialization_serialize_change_hashes(_)
serialization_serialize_change_hashes(hashes) ==
    IF hashes = <<>> THEN <<>>
    ELSE Head(hashes) \o serialization_serialize_change_hashes(Tail(hashes))

\* serialization.rs:16-31: a length that is no multiple of the width is an
\* error; otherwise the chunks bytes[i*W .. (i+1)*W], i = 0 .. len/W - 1,
\* each converted with try_into.  A slice that ends after the last byte
\* panics.
serialization_deserialize_change_hashes_floor(bytes) ==
    LET n == Len(bytes) \div CHANGE_HASH_WIDTH IN
    [ok |-> TRUE, panicked |-> FALSE,
     val |-> [i \in 1..n |->
                SubSeq(bytes, (i - 1) * CHANGE_HASH_WIDTH + 1, i * CHANGE_HASH_WIDTH)]]

serialization_deserialize_change_hashes(bytes) ==
    IF Len(bytes) % CHANGE_HASH_WIDTH # 0
    THEN [ok |-> FALSE, panicked |-> FALSE, val |-> <<>>]
    ELSE LET n == Len(bytes) \div CHANGE_HASH_WIDTH
             chunk(i) == SubSeq(bytes, (i - 1) * CHANGE_HASH_WIDTH + 1,
                                i * CHANGE_HASH_WIDTH) IN
         IF \E i \in 1..n : i * CHANGE_HASH_WIDTH > Len(bytes)
         THEN [ok |-> FALSE, panicked |-> TRUE, val |-> <<>>]
         ELSE IF \E i \in 1..n : Len(chunk(i)) # CHANGE_HASH_WIDTH
         THEN [ok |-> FALSE, panicked |-> FALSE, val |-> <<>>]
         ELSE [ok |-> TRUE, panicked |-> FALSE, val |-> [i \in 1..n |-> chunk(i)]]

\* changes for the batches: a first change, its successor, a change of
\* another actor and a merge of two heads
BatchPool ==
    {Change(10, "X", 1, {}), Change(11, "X", 2, {10}), F1,
     Change(40, "M", 1, {10, 31})}

\* documents and changes for apply_changes: changes the document holds, new
\* ones, one whose dependency is missing, two with one sequence number
SampleDocs ==
    {{Change(10, "X", 1, {})},
     {Change(10, "X", 1, {}), Change(11, "X", 2, {10})},
     {Change(10, "X", 1, {}), F1}}
ApplyPool ==
    {Change(10, "X", 1, {}), Change(11, "X", 2, {10}), F1, F1b,
     Change(20, "Y", 1, {}), Change(21, "Y", 2, {20})}

Input(k, h, b, c, d) ==
    [kind |-> k, hashes |-> h, bytes |-> b, changes |-> c, doc |-> d]

PureInputs ==
    {Input(k, h, <<>>, <<>>, {}) :
        k \in {"frontier_bytes", "frontier_json"},
        h \in SeqsUpTo(SampleHashes, MaxHashes)}
    \cup {Input("bytes", <<>>, [i \in 1..k |-> b], <<>>, {}) :
            k \in 0..MaxBytes, b \in {0, 255}}
    \cup {Input("batch", <<>>, <<>>, c, {}) : c \in SeqsUpTo(BatchPool, MaxHashes)}
    \cup {Input("apply", <<>>, <<>>, c, d) :
            c \in SeqsUpTo(ApplyPool, MaxHashes), d \in SampleDocs}

Stage(s, w, r, ds) == [stage |-> s, wire |-> w, res |-> r, docs |-> ds]
NoResult == [ok |-> FALSE, panicked |-> FALSE, val |-> <<>>]

\* a byte sequence that arrived is given to the decoder as it is
PureInit ==
    /\ pin \in PureInputs
    /\ pst = IF pin.kind = "bytes" THEN Stage("encoded", pin.bytes, NoResult, <<>>)
             ELSE IF pin.kind = "apply" THEN Stage("in", <<>>, NoResult, <<pin.doc>>)
             ELSE Stage("in", <<>>, NoResult, <<>>)

SerializeHashesBytes ==
    /\ pin.kind = "frontier_bytes" /\ pst.stage = "in"
    /\ pst' = Stage("encoded", serialization_serialize_change_hashes(pin.hashes),
                    NoResult, <<>>)
    /\ UNCHANGED <<pin, notPure>>

DeserializeHashesBytes ==
    /\ pin.kind \in {"frontier_bytes", "bytes"} /\ pst.stage = "encoded"
    /\ pst' = Stage("decoded", pst.wire,
                    serialization_deserialize_change_hashes(pst.wire), <<>>)
    /\ UNCHANGED <<pin, notPure>>

SerializeHashesJson ==
    /\ pin.kind = "frontier_json" /\ pst.stage = "in"
    /\ pst' = Stage("encoded", serialize_change_hashes(pin.hashes), NoResult, <<>>)
    /\ UNCHANGED <<pin, notPure>>

DeserializeHashesJson ==
    /\ pin.kind = "frontier_json" /\ pst.stage = "encoded"
    /\ pst' = Stage("decoded", pst.wire,
                    [ok |-> deserialize_change_hashes(pst.wire).ok, panicked |-> FALSE,
                     val |-> deserialize_change_hashes(pst.wire).val], <<>>)
    /\ UNCHANGED <<pin, notPure>>

SerializeChanges ==
    /\ pin.kind = "batch" /\ pst.stage = "in"
    /\ pst' = Stage("encoded", serialize_changes(pin.changes), NoResult, <<>>)
    /\ UNCHANGED <<pin, notPure>>

DeserializeChanges ==
    /\ pin.kind = "batch" /\ pst.stage = "encoded"
    /\ pst' = Stage("decoded", pst.wire,
                    [ok |-> deserialize_changes(pst.wire).ok, panicked |-> FALSE,
                     val |-> deserialize_changes(pst.wire).val], <<>>)
    /\ UNCHANGED <<pin, notPure>>

\* Database::apply_changes (database.rs:73-77) with the batch, on the
\* document the call before it left
ApplyChanges ==
    /\ pin.kind = "apply" /\ Len(pst.docs) < 3
    /\ pst' = Stage("applied", <<>>, NoResult,
                    Append(pst.docs,
                           apply_changes(pst.docs[Len(pst.docs)], pin.changes).doc))
    /\ UNCHANGED <<pin, notPure>>

InitPure ==
    /\ RegistryInit /\ NodesInit /\ ServeInit /\ HubInit /\ LockInit /\ TextInit
    /\ StartDone
    /\ foreign = FALSE /\ PureInit

NextPure ==
    \/ SerializeHashesBytes
    \/ DeserializeHashesBytes
    \/ SerializeHashesJson
    \/ DeserializeHashesJson
    \/ SerializeChanges
    \/ DeserializeChanges
    \/ ApplyChanges

SpecPure == InitPure /\ [][NextPure]_vars

(***************************************************************************)
(* Claims about the Sync loops.                                          *)
(***************************************************************************)
CreatedChanges == Hashes(doc["X"]) \cup Hashes(doc["Y"])

\* C1: with both nodes constructed against the running Registry and every
\* loop scheduled fairly, the nodes end up with equal heads and each
\* document holds every change either node created (local edits stop, as
\* MaxEdits bounds them).  Checked under FairClosed.
C1_Convergence ==
    <>[](/\ get_heads(doc["X"]) = get_heads(doc["Y"])
         /\ \A n \in Nodes : CreatedChanges \subseteq Hashes(Applied(doc[n])))

\* C2: when the pull cycle of a node has contacted the listener of another
\* node, the changes that node held then are in the puller's document at the
\* end of the cycle.
C2_PullDeliversChange ==
    \A n \in LoopNodes :
        pc[n] = "sleep" => owed[n] \subseteq Hashes(Applied(doc[n]))

\* C3: once the register loop of a node has posted its address, the address
\* is in the PeerSet of the Registry.  Checked under SpecClosed.
C3_RegisterReachesRegistry ==
    \A n \in Nodes : regpc[n] = "sleep" => local_addr[n] \in Range(peers)

NonSelf(list, a) == SelectSeq(list, LAMBDA p : p # a)
Consumed(n) == IF pc[n] = "await" THEN idx[n] + 1 ELSE idx[n]
InCycle(n) == pc[n] \in {"iter", "await", "sleep"}

\* C7: in a pull cycle that obtained a peer list no event is sent while the
\* list is iterated, and exactly one Event::Pull has been sent when the
\* cycle reaches its sleep, with every entry of the list consumed.
C7_OnePullPerCycle ==
    \A n \in LoopNodes :
        /\ pc[n] \in {"iter", "await"} => sentInCycle[n] = 0
        /\ pc[n] = "sleep" =>
              /\ sentInCycle[n] = 1
              /\ idx[n] = Len(peerList[n])
              /\ Len(results[n]) = Len(contacted[n])
        /\ Len(hub[n]) <= cycles[n] + inputs[n]

\* a finished cycle over two peers whose exchanges both failed
C7_Witness ==
    \E n \in LoopNodes :
        /\ pc[n] = "sleep" /\ sentInCycle[n] = 1
        /\ results[n] = <<FALSE, FALSE>>

\* C8: a failed exchange ends neither the cycle nor the for loop: at every
\* point of a cycle the peers contacted so far are exactly the entries
\* consumed so far that differ from the node's own address, so at the end of
\* the cycle every such entry of the list was contacted, whatever failed
\* before it; and no step removes a change from a document.
C8_PeerFailureIsolation ==
    /\ [](\A n \in LoopNodes :
            InCycle(n) =>
                /\ Consumed(n) <= Len(peerList[n])
                /\ contacted[n] =
                     NonSelf(SubSeq(peerList[n], 1, Consumed(n)), local_addr[n])
                /\ pc[n] = "sleep" =>
                     contacted[n] = NonSelf(peerList[n], local_addr[n]))
    /\ [][\A n \in Nodes : doc[n] \subseteq doc'[n]]_vars

\* the first exchange of a cycle failed, the next peer of the list was
\* contacted all the same and its change was applied
C8_Witness ==
    \E n \in LoopNodes :
        /\ pc[n] = "sleep"
        /\ Len(peerList[n]) = 2
        /\ results[n] = <<FALSE, TRUE>>
        /\ F1 \in doc[n]

\* C9: a peer that accepts the connection and never answers holds the pull
\* loop up only for a bounded time: the loop leaves the exchange and
\* reaches the end of the cycle.  Checked under FairSpec.
C9_UnresponsivePeerBounded ==
    \A n \in LoopNodes :
        (pc[n] = "await" /\ xch[n].state = "no_answer") ~> (pc[n] = "sleep")

ConsumerEvents == {PullEvent} \cup TerminalEvents

\* C10: every event in the channel and every event get_event returns is
\* Pull or Terminal(input), and a step in which the Registry could not be
\* reached or read, or an exchange failed, sends no event.
C10_NoErrorEvents ==
    /\ [](\A n \in Nodes :
            /\ \A i \in DOMAIN hub[n] : hub[n][i] \in ConsumerEvents
            /\ got[n] \in ConsumerEvents \cup {NoEvent})
    /\ [][\A n \in LoopNodes :
            (\/ errlog'[n] # errlog[n]
             \/ (pc'[n] = "panicked" /\ pc[n] # "panicked")
             \/ (Len(results'[n]) > Len(results[n])
                   /\ ~results'[n][Len(results'[n])])) => hub'[n] = hub[n]]_vars

\* the consumer has got the Pull of a cycle in which an exchange failed,
\* after the Registry address had refused a connection
C10_Witness ==
    \E n \in LoopNodes :
        /\ got[n] = PullEvent
        /\ pc[n] = "sleep" /\ FALSE \in Range(results[n])
        /\ "Failed to get peers from registry" \in errlog[n]
        /\ "Failed to sync with peer" \in errlog[n]

(***************************************************************************)
(* C11: Sync::serve_changes answers a request whose body does not decode   *)
(* as a frontier with status 400; a request with a frontier of changes the *)
(* document holds is answered 200 with the encoding of the changes that    *)
(* are not at or before the frontier; no request changes the document, and *)
(* after each answer, 400 or 200, the listener takes the next request.     *)
(***************************************************************************)
Decodable(raw) == raw.fmt = "json" /\ raw.changes = <<>>
ChangesSince(d, f) ==
    {c \in Applied(d) : c.hash \notin Ancestors(Applied(d), Range(f))}

C12_PullLoopNeverStops == \A n \in Nodes : pc[n] # "panicked"

(***************************************************************************)
(* C13: get_event returns the events in the order they were enqueued:     *)
(* what was returned so far, followed by what is in the queue, is exactly  *)
(* what was enqueued so far (oldest first, none lost, none returned        *)
(* twice), and the events of each producer are returned in the order that  *)
(* producer made them.                                                     *)
(***************************************************************************)
FromProducer(q, t) ==
    SelectSeq(q, LAMBDA e : e.tag = IF t = "pull" THEN "Pull" ELSE "Terminal")

C13_EventOrder ==
    /\ deq \o event_queue = enq
    /\ Cardinality(Range(deq)) = Len(deq)
    /\ \A t \in Producers :
         LET d == FromProducer(deq, t) IN
         \A i \in DOMAIN d : d[i].payload = i

\* events of both producers were returned while a later one was queued
C13_Witness ==
    /\ Len(deq) >= 2
    /\ \E i, j \in DOMAIN deq : deq[i].tag = "Pull" /\ deq[j].tag = "Terminal"
    /\ Len(event_queue) >= 1

(***************************************************************************)
(* C14: there is no lost wake-up: every event a producer has enqueued is   *)
(* returned by get_event, also when the caller was blocked on the empty    *)
(* queue; and a producer that wants to enqueue gets the queue's lock: it   *)
(* waits neither for the caller of get_event nor for room in the queue.    *)
(***************************************************************************)
C14_NoLostWakeup ==
    /\ \A k \in 1..(MaxAttempts + MaxInputs) : (Len(enq) >= k) ~> (Len(deq) >= k)
    /\ \A t \in Producers : (tpc[t] = "lock") ~> (tpc[t] = "push")

\* the caller of get_event is blocked in wait, a producer has pushed an
\* event and is about to notify
C14_Witness ==
    /\ tpc["ui"] = "asleep"
    /\ Len(event_queue) > 0
    /\ \E t \in Producers : tpc[t] = "notify"

(***************************************************************************)
(* C20: pull_thread (controller.rs) waits 1000 ms between any two          *)
(* consecutive connection attempts, whatever the outcome of the earlier    *)
(* one.                                                                    *)
(***************************************************************************)
C20_PullRetryWaits ==
    [][(attempts' = attempts + 1 /\ attempts >= 1) => waited = 1000]_vars

(***************************************************************************)
(* C15: frontier round trip: for every sequence of change hashes, the      *)
(* empty one included, decoding the encoding succeeds and gives the same   *)
(* hashes in the same order (the byte codec of serialization.rs and the    *)
(* JSON codec of controller/mod.rs).                                       *)
(***************************************************************************)
C15_FrontierRoundTrip ==
    (pin.kind \in {"frontier_bytes", "frontier_json"} /\ pst.stage = "decoded") =>
        /\ pst.res.ok /\ ~pst.res.panicked
        /\ pst.res.val = pin.hashes

\* two different hashes went through the byte codec
C15_Witness ==
    /\ pin.kind = "frontier_bytes" /\ pst.stage = "decoded"
    /\ Len(pin.hashes) = 2 /\ pin.hashes[1] # pin.hashes[2]
    /\ Len(pst.wire) = 2 * CHANGE_HASH_WIDTH

C17_DecodeByLength ==
    (pin.kind = "bytes" /\ pst.stage = "decoded") =>
        /\ ~pst.res.panicked
        /\ IF Len(pin.bytes) % 32 # 0
           THEN ~pst.res.ok
           ELSE pst.res.ok /\ Len(pst.res.val) = Len(pin.bytes) \div 32

\* 33 bytes were given to the decoder
C17_Witness ==
    /\ pin.kind = "bytes" /\ pst.stage = "decoded"
    /\ Len(pin.bytes) = 33
    /\ ~pst.res.ok

(***************************************************************************)
(* C18: apply is idempotent: applying a batch a second time leaves the     *)
(* heads and the known changes as the first application left them, and a   *)
(* batch of changes the document already holds does not alter it.          *)
(***************************************************************************)
C18_ApplyIdempotent ==
    (pin.kind = "apply" /\ Len(pst.docs) >= 2) =>
        /\ Range(pin.changes) \subseteq pin.doc => pst.docs[2] = pin.doc
        /\ Len(pst.docs) = 3 =>
             /\ get_heads(pst.docs[3]) = get_heads(pst.docs[2])
             /\ Hashes(Applied(pst.docs[3])) = Hashes(Applied(pst.docs[2]))
             /\ pst.docs[3] = pst.docs[2]

\* a batch that moved the heads the first time was applied again
C18_Witness ==
    /\ pin.kind = "apply" /\ Len(pst.docs) = 3
    /\ get_heads(pst.docs[2]) # get_heads(pst.docs[1])
    /\ Len(pin.changes) = 2

(***************************************************************************)
(* C19: between any two consecutive GET /peers queries of the pull loop    *)
(* the loop sleeps for the pull interval of 7 s, whatever the outcome of   *)
(* the earlier query.                                                      *)
(***************************************************************************)
C19_PullInterval == \A n \in Nodes : gap[n] \in {NoQuery, 7}

C22_RefusedNotLogged ==
    [][\A n \in Nodes :
         (pc[n] = "await" /\ pc'[n] = "iter") =>
            IF xch[n].state = "send_error"
            THEN errlog'[n] = errlog[n]
            ELSE ~exchange_result(doc[n], xch[n]).ok =>
                    "Failed to sync with peer" \in errlog'[n]]_vars

(***************************************************************************)
(* C23: the pull loop sends no request to the node's own listener address, *)
(* a pending exchange is never with that address, and when a cycle is over *)
(* every address of the peer list other than the node's own was sent a     *)
(* request.                                                                *)
(***************************************************************************)
C23_NeverPullsFromSelf ==
    \A n \in LoopNodes :
        /\ local_addr[n] \notin Range(contacted[n])
        /\ pc[n] = "await" => peerList[n][idx[n] + 1] # local_addr[n]
        /\ pc[n] = "sleep" =>
              Range(peerList[n]) \ {local_addr[n]} \subseteq Range(contacted[n])

\* a finished cycle whose peer list named the node itself and another peer:
\* one request was sent
C23_Witness ==
    \E n \in LoopNodes :
        /\ pc[n] = "sleep"
        /\ local_addr[n] \in Range(peerList[n])
        /\ Len(peerList[n]) = 2
        /\ Len(contacted[n]) = 1

(***************************************************************************)
(* C24: the frontier that Controller::pull sends names every current head  *)
(* of the document, the batch a peer Controller returns is empty when the  *)
(* requester already holds every change of the peer, and pull does not     *)
(* panic.                                                                  *)
(***************************************************************************)
C24_ThreadPullFrontier ==
    /\ tpc["pull"] # "panicked"
    /\ tpull # NoPull =>
          /\ tpull.sent = tpull.heads
          /\ tpull.covered => tpull.batch = 0

(***************************************************************************)
(* C29: get_event reaches pop_front only with the Mutex held and at least  *)
(* one event in the queue, whatever the producers did in between and       *)
(* however often wait returned without a notification; the unwrap of its   *)
(* result never panics.                                                    *)
(***************************************************************************)
C29_PopOnlyWhenNonEmpty ==
    /\ tpc["ui"] = "pop" => mutex = "ui" /\ Len(event_queue) > 0
    /\ tpc["ui"] # "panicked"

\* get_event is at pop_front, entered through the test that follows a
\* return of wait, while both producers have an event in the queue
C29_Witness ==
    /\ tpc["ui"] = "pop"
    /\ Len(event_queue) = 2
    /\ Len(deq) = 0
    /\ waited = 1000

InsideDoc(a) == lpc[a].held
NetworkIO(a) == lpc[a] \in {At("await", FALSE), At("idle", FALSE)}

(***************************************************************************)
(* C25: a task is inside a Database method exactly while it holds the      *)
(* guard of the document's Mutex, so the guard is taken on entry and gone  *)
(* at the return; no two of the listener, the pull loop and the local      *)
(* edits are inside a Database method at once; and no task holds the guard *)
(* while it waits for the network.                                         *)
(***************************************************************************)
C25_DocLockDiscipline ==
    /\ \A a \in DocTasks : InsideDoc(a) <=> dlock = a
    /\ \A a, b \in DocTasks : InsideDoc(a) /\ InsideDoc(b) => a = b
    /\ \A a \in DocTasks : NetworkIO(a) => dlock # a

\* the pull loop waits for its peer's answer after get_heads has returned,
\* while the handler of the listener is inside get_changes and a local edit
\* waits for the Mutex
C25_Witness ==
    /\ lpc["pull"] = At("await", FALSE)
    /\ lcalls["pull"] = 1
    /\ lpc["serve"] = At("get_changes", TRUE)
    /\ lpc["edit"] = At("add_task", FALSE)

(***************************************************************************)
(* C26: a request to the listener leaves the heads of the document as they *)
(* were, whatever status it is answered with; the heads of a document      *)
(* change only in the return of a local edit or of the apply_changes of    *)
(* the node's own pull loop.                                               *)
(***************************************************************************)
C26_ServeReadOnly ==
    [][\A n \in Nodes :
         /\ (lpc'["serve"] # lpc["serve"] \/ lserved' # lserved) =>
                get_heads(doc'[n]) = get_heads(doc[n])
         /\ get_heads(doc'[n]) # get_heads(doc[n]) =>
                /\ n = DocNode
                /\ \/ dlock = "edit" /\ lpc["edit"] = At("add_task", TRUE)
                   \/ dlock = "pull" /\ lpc["pull"] = At("apply_changes", TRUE)]_vars

\* the listener has answered 200, 400 and 500, and the heads are no longer
\* those of the new document
C26_Witness ==
    /\ {200, 400, 500} \subseteq lserved
    /\ lcalls["serve"] = 2
    /\ get_heads(doc[DocNode]) # <<ActorBase(DocNode)>>

(***************************************************************************)
(* C28: no step removes a change from a document, and a change that a      *)
(* local edit made after the pull loop read the heads and before its       *)
(* apply_changes returned is in the document afterwards.                   *)
(***************************************************************************)
C28_NoChangeLost ==
    /\ [](lmid \subseteq doc[DocNode])
    /\ [][\A n \in Nodes : \A c \in doc[n] : c \in doc'[n]]_vars

\* apply_changes of the pull loop has returned and has added the peer's
\* change; a local edit was made while the exchange was under way
C28_Witness ==
    /\ lpc["pull"] = At("idle", FALSE)
    /\ lcalls["pull"] = 2
    /\ lmid # {}
    /\ F1 \in doc[DocNode]

(***************************************************************************)
(* SyncServer (main.rs:130-273): the serve thread, the pull thread and the *)
(* edits of the user interface on SyncServer.text.  Frontiers travel as    *)
(* the bytes of serialization.rs.                                          *)
(***************************************************************************)
\* the bytes of a ChangeHash of the model
HashBytes(h) == [i \in 1..CHANGE_HASH_WIDTH |-> h]
HashOfBytes(b) == b[1]

\* frontiers a peer can send: none of its heads (a peer without a change,
\* or a connection closed before a byte was written), one head, two heads,
\* a hash this document does not hold
TextFrontiers == {<<>>, <<10>>, <<10, 31>>, <<31>>}

\* what stream.read can give (main.rs:239-240): the bytes of a frontier, or
\* a frame that is no whole number of hashes
TextFrames ==
    {serialization_serialize_change_hashes([i \in DOMAIN f |-> HashBytes(f[i])]) :
        f \in TextFrontiers} \cup {<<0>>}

\* main.rs:246: the slice &heads[1..]; a start beyond the length panics
heads_from_1(heads) ==
    IF Len(heads) < 1 THEN [panicked |-> TRUE, val |-> <<>>]
    ELSE [panicked |-> FALSE, val |-> SubSeq(heads, 2, Len(heads))]

\* a panic of a thread that holds the guard of a Mutex poisons the Mutex
after_panic(lock, holds) == IF holds THEN "poisoned" ELSE lock

\* self.text.lock().unwrap() (main.rs:205, 210, 215, 245, 257, 267): an
\* unwrap of the Err of a poisoned Mutex panics
TextLockPanics == textLock = "poisoned"

\* SyncServer::serve_changes (main.rs:235-251) inside the loop of 160-164
TextServe ==
    /\ spc["serve"] = "run"
    /\ scalls["serve"] < MaxCalls
    /\ scalls' = [scalls EXCEPT !["serve"] = @ + 1]
    /\ \E frame \in TextFrames :
         LET hs == serialization_deserialize_change_hashes(frame)
             heads == [i \in DOMAIN hs.val |-> HashOfBytes(hs.val[i])]
             sl == heads_from_1(heads)
             cs == get_changes(text, sl.val) IN
         IF ~hs.ok
         THEN /\ sans' = "error"
              /\ sfront' = NoQuery
              /\ UNCHANGED <<spc, textLock>>
         ELSE /\ sfront' = Len(heads)
              /\ IF TextLockPanics
                 THEN /\ spc' = [spc EXCEPT !["serve"] = "panicked"]
                      /\ sans' = "panic"
                      /\ UNCHANGED textLock
                 ELSE IF sl.panicked
                 THEN /\ spc' = [spc EXCEPT !["serve"] = "panicked"]
                      /\ textLock' = after_panic(textLock, TRUE)
                      /\ sans' = "panic"
                 ELSE /\ sans' = IF ~cs.ok THEN "error"
                                 ELSE IF Len(cs.val) = Cardinality(Applied(text))
                                 THEN "full" ELSE "partial"
                      /\ UNCHANGED <<spc, textLock>>
    /\ UNCHANGED <<text, notText>>

\* SyncServer::pull (main.rs:253-273) inside the loop of 169-184, with a
\* peer that answers a batch
TextPull ==
    /\ spc["pull"] = "run"
    /\ scalls["pull"] < MaxCalls
    /\ scalls' = [scalls EXCEPT !["pull"] = @ + 1]
    /\ IF TextLockPanics
       THEN /\ spc' = [spc EXCEPT !["pull"] = "panicked"]
            /\ UNCHANGED text
       ELSE /\ \E b \in ForeignBatches : text' = apply_changes(text, b).doc
            /\ UNCHANGED spc
    /\ UNCHANGED <<textLock, sfront, sans, notText>>

\* SyncServer::add_text (main.rs:204-207), called by the loop of main
TextEdit ==
    /\ spc["ui"] = "run"
    /\ scalls["ui"] < MaxCalls
    /\ scalls' = [scalls EXCEPT !["ui"] = @ + 1]
    /\ IF TextLockPanics
       THEN /\ spc' = [spc EXCEPT !["ui"] = "panicked"]
            /\ UNCHANGED text
       ELSE /\ text' = text \cup {Change(ActorBase("X") + scalls["ui"] + 1, "X",
                                         scalls["ui"] + 2, Range(get_heads(text)))}
            /\ UNCHANGED spc
    /\ UNCHANGED <<textLock, sfront, sans, notText>>

NextText == TextServe \/ TextPull \/ TextEdit

SpecText == InitClosed /\ [][NextText]_vars

(***************************************************************************)
(* C27: a request to SyncServer whose frontier is empty is answered with   *)
(* every change of the document; afterwards the serve thread still accepts *)
(* requests, the Mutex of the text is not poisoned and no thread has       *)
(* panicked.                                                               *)
(***************************************************************************)
C27_EmptyFrontierServed ==
    /\ sfront = 0 => sans = "full"
    /\ textLock = "free"
    /\ \A t \in TextThreads : spc[t] = "run"

(***************************************************************************)
(* Sync::start (sync.rs:32-62), statement by statement, followed by the    *)
(* loops it spawns.                                                        *)
(***************************************************************************)
\* the order of the statements of Sync::start: bind (33-35), local_addr
\* (37-39), spawn query_changes (41-44), spawn register (46-49), serve (51-61)
start_next_spawn_first(at) ==
    CASE at = "bind" -> "spawn_pull"
      [] at = "spawn_pull" -> "spawn_register"
      [] at = "spawn_register" -> "local_addr"
      [] OTHER -> "serve"
start_next(at) ==
    CASE at = "bind" -> "local_addr"
      [] at = "local_addr" -> "spawn_pull"
      [] at = "spawn_pull" -> "spawn_register"
      [] OTHER -> "serve"

StartStep(n, at) ==
    /\ startpc[n] = at
    /\ startpc' = [startpc EXCEPT ![n] = start_next(at)]

\* lines 33-35: TcpListener::bind(127.0.0.1:0); the system picks a free port
StartBind(n) ==
    /\ StartStep(n, "bind")
    /\ \E p \in EphemeralPorts \ Range(listener) :
          listener' = [listener EXCEPT ![n] = p]
    /\ UNCHANGED <<registryVars, nodeVars, serveVars, hubVars, pureVars,
                   lockVars, textVars>>

\* lines 37-39: let local_addr = listener.local_addr()
StartLocalAddr(n) ==
    /\ StartStep(n, "local_addr")
    /\ local_addr' = [local_addr EXCEPT ![n] = listener[n]]
    /\ UNCHANGED <<foreign, doc, edits, pullVars, hub, got, inputs, regVars, errlog>>
    /\ UNCHANGED <<listener, registryVars, serveVars, hubVars, pureVars,
                   lockVars, textVars>>

\* lines 41-44: tokio::spawn(sync.query_changes(local_addr.clone()))
StartSpawnPull(n) ==
    /\ StartStep(n, "spawn_pull")
    /\ pc' = [pc EXCEPT ![n] = "get_peers"]
    /\ UNCHANGED <<peerList, idx, xch, contacted, results, owed, sentInCycle, cycles>>
    /\ UNCHANGED <<foreign, local_addr, doc, edits, slept, gap, hub, got, inputs,
                   regVars, errlog>>
    /\ UNCHANGED <<listener, registryVars, serveVars, hubVars, pureVars,
                   lockVars, textVars>>

\* lines 46-49: tokio::spawn(sync.register(local_addr.clone()))
StartSpawnRegister(n) ==
    /\ StartStep(n, "spawn_register")
    /\ regpc' = [regpc EXCEPT ![n] = "post"]
    /\ UNCHANGED <<regres, regSlept, posted>>
    /\ UNCHANGED <<foreign, local_addr, doc, edits, pullVars, hub, got, inputs, errlog>>
    /\ UNCHANGED <<listener, registryVars, serveVars, hubVars, pureVars,
                   lockVars, textVars>>

\* Sync::new has returned (sync.rs:28-30); start has not run yet
InitStart ==
    /\ RegistryInit /\ NodeFieldsInit
    /\ ServeInit /\ HubInit /\ PureIdle /\ LockInit /\ TextInit
    /\ foreign = TRUE
    /\ local_addr = [n \in Nodes |-> NoAddr]
    /\ pc = [n \in Nodes |-> "unspawned"]
    /\ regpc = [n \in Nodes |-> "unspawned"]
    /\ startpc = [n \in Nodes |-> "bind"]
    /\ listener = [n \in Nodes |-> NoAddr]

NextStart ==
    \/ \E n \in Nodes :
        \/ StartBind(n)
        \/ StartLocalAddr(n)
        \/ StartSpawnPull(n)
        \/ StartSpawnRegister(n)
    \/ \E n \in LoopNodes :
        \/ RegisterPost(n)
        \/ RegisterWake(n)
        \/ PullGetPeers(n)
        \/ PullSkipSelf(n)
        \/ PullSend(n)
        \/ PullRecv(n)
        \/ PullEmit(n)
        \/ PullWake(n)

SpecStart == InitStart /\ [][NextStart]_vars

(***************************************************************************)
(* C30: every address a node posts to the Registry is the address its      *)
(* listener is bound to; a loop runs only when the listener is bound and   *)
(* its address has been read, and the address the pull loop skips is the   *)
(* address the register loop posts.                                        *)
(***************************************************************************)
C30_RegistersBoundAddress ==
    \A n \in Nodes :
        /\ posted[n] \subseteq {listener[n]} \ {NoAddr}
        /\ (pc[n] # "unspawned" \/ regpc[n] # "unspawned") =>
              /\ listener[n] \in EphemeralPorts
              /\ local_addr[n] = listener[n]
        /\ \A i \in 1..Len(contacted[n]) : contacted[n][i] \notin posted[n]

\* a node has posted its address and has ended a pull cycle in which it
\* skipped that address, while the other node has not bound its listener
C30_Witness ==
    \E n, m \in Nodes :
        /\ posted[n] = {listener[n]}
        /\ pc[n] = "sleep"
        /\ local_addr[n] \in Range(peerList[n])
        /\ startpc[m] = "bind"

====
